---- MODULE Spec2Model ----
(***************************************************************************)
(* Discovery store (quadtree) of hunter-flipper, src/sonar_chart.c.        *)
(*                                                                         *)
(* The chart is modelled as the C structs are laid out: a node arena and a *)
(* point arena addressed by slot index (a pointer is a slot index, NULL is *)
(* -1), the quadtree threaded through the node arena.  Every C function is *)
(* an operator from a chart value to a chart value (and a return value).   *)
(*                                                                         *)
(* The arena sizes, the per-node capacity, the depth cap and the world's   *)
(* extent are scaled down from the values in src/sonar_chart.h so that TLC *)
(* can enumerate the reachable trees; they are the bounds of the model.    *)
(*                                                                         *)
(* Raycaster of hunter-flipper, src/raycaster.c: the Raycaster struct is a *)
(* record, every C function an operator from a Raycaster value to a        *)
(* Raycaster value and the values the function returns or writes.          *)
(*                                                                         *)
(* Terrain generation and chunk manager, src/terrain.c and                 *)
(* src/chunk_manager.c: a TerrainManager and the ChunkManager are records, *)
(* the chunk pool is addressed by slot index, uint32_t arithmetic is done  *)
(* on pairs of 16-bit halves and the float conversions are modelled by     *)
(* their rounding.  The terrain's edge is scaled down from src/terrain.h.  *)
(***************************************************************************)
EXTENDS Integers, Sequences, FiniteSets, TLC

VARIABLES chart, tick, last, accepted, sweeps, raycaster, ray, chunk_manager, terrain_seed, cm

vars == <<chart, tick, last, accepted, sweeps, raycaster, ray, chunk_manager, terrain_seed, cm>>

NULL == -1

---------------------------------------------------------------------------
(* Bounds of the model (scaled values of the program's configuration).     *)

\* per-node capacity, SONAR_QUADTREE_MAX_POINTS (8 in src/sonar_chart.h:6)
SONAR_QUADTREE_MAX_POINTS == 2
\* depth cap, SONAR_QUADTREE_MAX_DEPTH (6 in src/sonar_chart.h:5)
SONAR_QUADTREE_MAX_DEPTH == 2
\* point arena sizes the chart is run with, SONAR_MAX_POINTS (512 in
\* src/sonar_chart.h:9): PointPoolSmall fills up before the root subdivides,
\* SONAR_MAX_POINTS after it, TreePointPool only after the depth cap's
\* leaf and all its ancestors are full
PointPoolSmall == 2
SONAR_MAX_POINTS == 3
TreePointPool == 7
\* node arena sizes the chart is run with (128 in src/sonar_chart.c:353):
\* NodePoolSmall is full once the root has subdivided, NodePoolLarge
\* leaves four free nodes after the depth cap is reached
NodePoolSmall == 5
NodePoolLarge == 13
\* a node arena that, like the program's 128 nodes, is a multiple of four:
\* three nodes are free once the root has subdivided, so the next
\* subdivision obtains three children and fails on the fourth
NodePoolPartial == 8
\* a node arena in which the root cannot subdivide: its subdivision obtains
\* three children and fails on the fourth
NodePoolTiny == 4
\* the root covers [-WorldHalf, WorldHalf - 1] on both axes
\* (-32768 .. 32767 in src/sonar_chart.c:359)
WorldHalf == 8
\* number of clock advances a behaviour may take
MaxTicks == 2
\* number of age sweeps a behaviour may run
MaxSweeps == 1
\* the raycaster's clock wraps after WrapUnits clock units (furi_get_tick()
\* is a uint32_t and wraps at 2^32 ms)
WrapUnits == 12
\* number of casts between two resets of the frame statistics
MaxFrameCasts == 1
\* number of raycaster_bresham_step calls that return true after one
\* raycaster_bresham_init
MaxLineSteps == 6
\* a terrain is 2^TerrainLevels + 1 cells wide and high (TERRAIN_SIZE is
\* 33 = 2^5 + 1 in src/terrain.h:5); a tile keeps its edge CHUNK_SIZE, so
\* the terrain covers the low corner of its tile
TerrainLevels == 2
\* number of chunk_manager_update calls a behaviour may take
MaxUpdates == 2
\* number of half fade stages the clock may advance while points fade
MaxFadeTicks == 10
\* the largest output buffer a bounded area query is given
MaxBuffer == 3
\* number of chunk_manager_update calls while the observer goes back and
\* forth between two windows
MaxReloads == 3

---------------------------------------------------------------------------
(* Program constants.                                                      *)

SONAR_FADE_STAGES == 4
SONAR_FADE_DURATION_MS == 15000
SONAR_FADE_GONE == 4
SONAR_FADE_FULL == 0
FADE_UPDATE_INTERVAL_MS == 1000
UINT16_MOD == 65536
INT16_MAX == 32767
INT16_MIN == -32768
FIXED_POINT_SCALE == 1000
RAY_CACHE_SIZE == 64
RAY_MAX_DISTANCE == 48
FULL_RAY_COUNT == 32
FORWARD_RAY_COUNT == 16
SPARSE_RAY_COUNT == 8
MAX_QUALITY_LEVEL == 3
BASE_BUDGET_MS == 5
INITIAL_QUALITY_LEVEL == 1
INITIAL_BUDGET_MS == 3
PERFORMANCE_CHECK_INTERVAL_MS == 1000
EARLY_EXIT_BOUND == 10000
CHUNK_SIZE == 33
MAX_ACTIVE_CHUNKS == 4
CHUNK_CACHE_SIZE == 0
HASH_PRIME_X == 73856093
HASH_PRIME_Y == 19349663
LOAD_ELEVATION == 90
MAX_DELTA == 80
ROUGHNESS_DECAY == 2
\* 1103515245 = LCG_MULTIPLIER_HI * 2^16 + LCG_MULTIPLIER_LO
LCG_MULTIPLIER_HI == 16838
LCG_MULTIPLIER_LO == 20077
LCG_INCREMENT == 12345
INITIAL_TERRAIN_SEED == 12345

---------------------------------------------------------------------------
(* Utility functions.                                                      *)

sonar_bounds_intersect(a, b) ==
    ~(a.max_x < b.min_x \/ b.max_x < a.min_x \/
      a.max_y < b.min_y \/ b.max_y < a.min_y)

sonar_bounds_contains_point(bounds, x, y) ==
    /\ x >= bounds.min_x /\ x <= bounds.max_x
    /\ y >= bounds.min_y /\ y <= bounds.max_y

sonar_bounds_create(min_x, min_y, max_x, max_y) ==
    [min_x |-> min_x, min_y |-> min_y, max_x |-> max_x, max_y |-> max_y]

\* C's integer division by two truncates toward zero; \div floors.
CDiv2(a) == IF a >= 0 THEN a \div 2 ELSE -((-a) \div 2)

SetMin(S) == CHOOSE m \in S : \A o \in S : m <= o

\* |v| as abs() computes it
CAbs(v) == IF v < 0 THEN -v ELSE v

---------------------------------------------------------------------------
(* Memory pools.  A slot that was never allocated holds ZeroNode or        *)
(* ZeroPoint; the code reads a slot only after its allocation's memset.    *)

ZeroBounds == sonar_bounds_create(0, 0, 0, 0)

ZeroNode ==
    [bounds |-> ZeroBounds, points |-> <<>>,
     children |-> <<NULL, NULL, NULL, NULL>>, is_leaf |-> FALSE, depth |-> 0]

ZeroPoint ==
    [world_x |-> 0, world_y |-> 0, discovery_time |-> 0,
     fade_state |-> SONAR_FADE_FULL, is_terrain |-> FALSE]

\* node->point_count: the node's points array is modelled by its first
\* point_count entries
point_count(node) == Len(node.points)

sonar_node_pool_init(size) ==
    [nodes |-> [i \in 0..(size - 1) |-> ZeroNode],
     node_in_use |-> [i \in 0..(size - 1) |-> FALSE],
     pool_size |-> size, next_free |-> 0]

sonar_point_pool_init(size) ==
    [points |-> [i \in 0..(size - 1) |-> ZeroPoint],
     point_in_use |-> [i \in 0..(size - 1) |-> FALSE],
     pool_size |-> size, next_free |-> 0, active_count |-> 0]

\* the first free slot met by the scan that starts at next_free, or NULL
FirstFreeSlot(in_use, pool_size, next_free) ==
    LET offs == {i \in 0..(pool_size - 1) :
                    ~in_use[(next_free + i) % pool_size]}
    IN  IF offs = {} THEN NULL ELSE (next_free + SetMin(offs)) % pool_size

\* returns the pool after the call and the allocated slot (NULL: exhausted)
sonar_node_pool_alloc(pool) ==
    LET index == FirstFreeSlot(pool.node_in_use, pool.pool_size, pool.next_free)
    IN  IF index = NULL
        THEN [pool |-> pool, node |-> NULL]
        ELSE [pool |-> [pool EXCEPT
                          !.node_in_use[index] = TRUE,
                          !.next_free = (index + 1) % pool.pool_size,
                          !.nodes[index] = [ZeroNode EXCEPT !.is_leaf = TRUE]],
              node |-> index]

sonar_node_pool_free(pool, node) ==
    IF node \in 0..(pool.pool_size - 1)
    THEN [pool EXCEPT !.node_in_use[node] = FALSE]
    ELSE pool

sonar_point_pool_alloc(pool) ==
    LET index == FirstFreeSlot(pool.point_in_use, pool.pool_size, pool.next_free)
    IN  IF pool.active_count >= pool.pool_size \/ index = NULL
        THEN [pool |-> pool, point |-> NULL]
        ELSE [pool |-> [pool EXCEPT
                          !.point_in_use[index] = TRUE,
                          !.next_free = (index + 1) % pool.pool_size,
                          !.active_count = (pool.active_count + 1) % UINT16_MOD,
                          !.points[index] = ZeroPoint],
              point |-> index]

\* a release that leaves the count of active points alone
sonar_point_pool_free_uncounted(pool, point) ==
    IF point \in 0..(pool.pool_size - 1)
    THEN [pool EXCEPT !.point_in_use[point] = FALSE]
    ELSE pool

sonar_point_pool_free(pool, point) ==
    IF point \in 0..(pool.pool_size - 1)
    THEN [pool EXCEPT
            !.point_in_use[point] = FALSE,
            !.active_count = (pool.active_count - 1) % UINT16_MOD]
    ELSE pool

---------------------------------------------------------------------------
(* Fade management.                                                        *)

\* a fade state that starts over after the last stage
sonar_chart_get_fade_state_cyclic(point, current_time) ==
    ((current_time - point.discovery_time) \div SONAR_FADE_DURATION_MS)
        % (SONAR_FADE_STAGES + 1)

\* current_time - discovery_time in uint32_t: the clock of the model never
\* runs backwards and stays far below 2^32, so the difference never wraps
sonar_chart_get_fade_state(point, current_time) ==
    LET age == current_time - point.discovery_time
        stage == age \div SONAR_FADE_DURATION_MS
    IN  IF stage >= SONAR_FADE_STAGES THEN SONAR_FADE_GONE ELSE stage

---------------------------------------------------------------------------
(* Quadtree operations.  ch is a SonarChart value.                         *)

\* returns the chart after the call and the new node (NULL: pool exhausted)
sonar_quad_create(ch, bounds, depth) ==
    LET a == sonar_node_pool_alloc(ch.node_pool)
    IN  IF a.node = NULL
        THEN [ch |-> [ch EXCEPT !.node_pool = a.pool], node |-> NULL]
        ELSE [ch |-> [ch EXCEPT
                        !.node_pool =
                            [a.pool EXCEPT
                               !.nodes[a.node].bounds = bounds,
                               !.nodes[a.node].depth = depth,
                               !.nodes[a.node].is_leaf = TRUE,
                               !.nodes[a.node].points = <<>>]],
              node |-> a.node]

RECURSIVE sonar_quad_free(_, _)
RECURSIVE FreeChildren(_, _, _)

\* the loop of sonar_quad_free over node->children[i .. 3]
FreeChildren(ch, node, i) ==
    IF i > 4 THEN ch
    ELSE FreeChildren(sonar_quad_free(ch, ch.node_pool.nodes[node].children[i]),
                      node, i + 1)

sonar_quad_free(ch, node) ==
    IF node = NULL THEN ch
    ELSE LET ch1 == IF ~ch.node_pool.nodes[node].is_leaf
                    THEN FreeChildren(ch, node, 1) ELSE ch
         IN  [ch1 EXCEPT !.node_pool = sonar_node_pool_free(ch1.node_pool, node)]

\* the bounds sonar_quad_subdivide gives child j (1 NW, 2 NE, 3 SW, 4 SE)
ChildBounds(b, j) ==
    LET mid_x == CDiv2(b.min_x + b.max_x)
        mid_y == CDiv2(b.min_y + b.max_y)
    IN  CASE j = 1 -> sonar_bounds_create(b.min_x, b.min_y, mid_x, mid_y)
          [] j = 2 -> sonar_bounds_create(mid_x, b.min_y, b.max_x, mid_y)
          [] j = 3 -> sonar_bounds_create(b.min_x, mid_y, mid_x, b.max_y)
          [] j = 4 -> sonar_bounds_create(mid_x, mid_y, b.max_x, b.max_y)

\* node->points[node->point_count] = point; node->point_count++
AppendPoint(ch, node, point) ==
    [ch EXCEPT !.node_pool.nodes[node].points = Append(@, point)]

RECURSIVE CreateChildren(_, _, _)
\* the four sonar_quad_create calls of sonar_quad_subdivide, child j onwards
CreateChildren(ch, node, j) ==
    IF j > 4 THEN ch
    ELSE LET n == ch.node_pool.nodes[node]
             c == sonar_quad_create(ch, ChildBounds(n.bounds, j), n.depth + 1)
         IN  CreateChildren(
                 [c.ch EXCEPT !.node_pool.nodes[node].children[j] = c.node],
                 node, j + 1)

\* a failed subdivision that leaves the children it obtained in place
AbortChildren_leaking(ch, node, i, j) == ch

RECURSIVE AbortChildren(_, _, _, _)
\* the clean-up of a failed subdivision: children 1 .. i-1 are freed and
\* their references cleared
AbortChildren(ch, node, i, j) ==
    IF j >= i THEN ch
    ELSE LET ch1 == sonar_quad_free(ch, ch.node_pool.nodes[node].children[j])
         IN  AbortChildren(
                 [ch1 EXCEPT !.node_pool.nodes[node].children[j] = NULL],
                 node, i, j + 1)

RECURSIVE sonar_quad_insert(_, _, _)
RECURSIVE sonar_quad_subdivide(_, _)
RECURSIVE Redistribute(_, _, _)
RECURSIVE InsertIntoChildren(_, _, _, _)

\* a subdivision that forgets to hand the parent's points to the children
Redistribute_forgotten(ch, node, i) == ch

\* the redistribution loop of sonar_quad_subdivide, from points[i] onwards:
\* each point goes to the first child whose bounds contain it, the result of
\* that insert is not looked at
Redistribute(ch, node, i) ==
    LET n == ch.node_pool.nodes[node] IN
    IF i > point_count(n) THEN ch
    ELSE LET point == n.points[i]
             pt == ch.point_pool.points[point]
             fits == {j \in 1..4 :
                        sonar_bounds_contains_point(
                            ch.node_pool.nodes[n.children[j]].bounds,
                            pt.world_x, pt.world_y)}
         IN  IF fits = {} THEN Redistribute(ch, node, i + 1)
             ELSE Redistribute(
                      sonar_quad_insert(ch, n.children[SetMin(fits)], point).ch,
                      node, i + 1)

\* a subdivision that hands the points to the children and keeps them on
\* the parent's list as well
sonar_quad_subdivide_copying(ch, node) ==
    LET n == ch.node_pool.nodes[node] IN
    IF ~n.is_leaf \/ n.depth >= SONAR_QUADTREE_MAX_DEPTH THEN ch
    ELSE LET ch1 == CreateChildren(ch, node, 1)
             failed == {i \in 1..4 : ch1.node_pool.nodes[node].children[i] = NULL}
         IN  IF failed # {}
             THEN AbortChildren(ch1, node, SetMin(failed), 1)
             ELSE Redistribute(
                      [ch1 EXCEPT !.node_pool.nodes[node].is_leaf = FALSE],
                      node, 1)

sonar_quad_subdivide(ch, node) ==
    LET n == ch.node_pool.nodes[node] IN
    IF ~n.is_leaf \/ n.depth >= SONAR_QUADTREE_MAX_DEPTH THEN ch
    ELSE LET ch1 == CreateChildren(ch, node, 1)
             kids == ch1.node_pool.nodes[node].children
             failed == {i \in 1..4 : kids[i] = NULL}
         IN  IF failed # {}
             THEN AbortChildren(ch1, node, SetMin(failed), 1)
             ELSE LET ch2 == [ch1 EXCEPT !.node_pool.nodes[node].is_leaf = FALSE]
                      ch3 == Redistribute(ch2, node, 1)
                  IN  [ch3 EXCEPT !.node_pool.nodes[node].points = <<>>]

\* the loop of sonar_quad_insert over node->children[i .. 3]
InsertIntoChildren(ch, node, point, i) ==
    IF i > 4
    THEN \* no child took the point: keep it on this node if there is room
         IF point_count(ch.node_pool.nodes[node]) < SONAR_QUADTREE_MAX_POINTS
         THEN [ch |-> AppendPoint(ch, node, point), ret |-> TRUE]
         ELSE [ch |-> ch, ret |-> FALSE]
    ELSE LET r == sonar_quad_insert(ch, ch.node_pool.nodes[node].children[i], point)
         IN  IF r.ret THEN r
             ELSE InsertIntoChildren(r.ch, node, point, i + 1)

\* an insert that appends to the leaf whose subdivision failed without
\* looking at its point_count
sonar_quad_insert_forcing(ch, node, point) ==
    LET n == ch.node_pool.nodes[node]
        pt == ch.point_pool.points[point]
    IN  IF ~sonar_bounds_contains_point(n.bounds, pt.world_x, pt.world_y)
        THEN [ch |-> ch, ret |-> FALSE]
        ELSE IF n.is_leaf
        THEN IF point_count(n) < SONAR_QUADTREE_MAX_POINTS
             THEN [ch |-> AppendPoint(ch, node, point), ret |-> TRUE]
             ELSE IF sonar_quad_subdivide(ch, node).node_pool.nodes[node].is_leaf
                  THEN [ch |-> AppendPoint(sonar_quad_subdivide(ch, node), node, point),
                        ret |-> TRUE]
                  ELSE InsertIntoChildren(sonar_quad_subdivide(ch, node), node, point, 1)
        ELSE InsertIntoChildren(ch, node, point, 1)

\* returns the chart after the call and the function's result
sonar_quad_insert(ch, node, point) ==
    LET n == ch.node_pool.nodes[node]
        pt == ch.point_pool.points[point]
    IN  IF ~sonar_bounds_contains_point(n.bounds, pt.world_x, pt.world_y)
        THEN [ch |-> ch, ret |-> FALSE]
        ELSE IF n.is_leaf
        THEN IF point_count(n) < SONAR_QUADTREE_MAX_POINTS
             THEN [ch |-> AppendPoint(ch, node, point), ret |-> TRUE]
             ELSE LET ch1 == sonar_quad_subdivide(ch, node)
                      n1 == ch1.node_pool.nodes[node]
                  IN  IF n1.is_leaf
                      THEN \* subdivision failed
                           IF point_count(n1) < SONAR_QUADTREE_MAX_POINTS
                           THEN [ch |-> AppendPoint(ch1, node, point), ret |-> FALSE]
                           ELSE [ch |-> ch1, ret |-> FALSE]
                      ELSE InsertIntoChildren(ch1, node, point, 1)
        ELSE InsertIntoChildren(ch, node, point, 1)

RECURSIVE sonar_quad_query(_, _, _, _, _)
RECURSIVE ScanPoints(_, _, _, _, _, _)
RECURSIVE QueryChildren(_, _, _, _, _, _)

\* a scan that writes every matching point without looking at the room left
\* in the buffer
ScanPoints_unchecked(ch, pts, i, bounds, out, max_points) ==
    IF i > Len(pts) THEN [out |-> out, ok |-> TRUE]
    ELSE LET pt == ch.point_pool.points[pts[i]]
         IN  ScanPoints(ch, pts, i + 1, bounds,
                 IF sonar_bounds_contains_point(bounds, pt.world_x, pt.world_y)
                 THEN Append(out, pts[i]) ELSE out,
                 max_points)

\* the loop over node->points of sonar_quad_query, from points[i] onwards.
\* out is out_points[0 .. *count - 1]; ok = FALSE is "buffer full"
ScanPoints(ch, pts, i, bounds, out, max_points) ==
    IF i > Len(pts) THEN [out |-> out, ok |-> TRUE]
    ELSE IF Len(out) >= max_points THEN [out |-> out, ok |-> FALSE]
    ELSE LET pt == ch.point_pool.points[pts[i]]
         IN  ScanPoints(ch, pts, i + 1, bounds,
                 IF sonar_bounds_contains_point(bounds, pt.world_x, pt.world_y)
                 THEN Append(out, pts[i]) ELSE out,
                 max_points)

\* the loop over node->children[i .. 3] of sonar_quad_query
QueryChildren(ch, node, i, bounds, out, max_points) ==
    IF i > 4 THEN [out |-> out, ok |-> TRUE]
    ELSE LET c == ch.node_pool.nodes[node].children[i]
         IN  IF c = NULL
             THEN QueryChildren(ch, node, i + 1, bounds, out, max_points)
             ELSE LET r == sonar_quad_query(ch, c, bounds, out, max_points)
                  IN  IF ~r.ok THEN r
                      ELSE QueryChildren(ch, node, i + 1, bounds, r.out, max_points)

\* a query that looks at the points of leaves only
sonar_quad_query_leaves_only(ch, node, bounds, out, max_points) ==
    LET n == ch.node_pool.nodes[node] IN
    IF ~sonar_bounds_intersect(n.bounds, bounds)
    THEN [out |-> out, ok |-> TRUE]
    ELSE IF n.is_leaf
         THEN ScanPoints(ch, n.points, 1, bounds, out, max_points)
         ELSE QueryChildren(ch, node, 1, bounds, out, max_points)

sonar_quad_query(ch, node, bounds, out, max_points) ==
    LET n == ch.node_pool.nodes[node] IN
    IF ~sonar_bounds_intersect(n.bounds, bounds)
    THEN [out |-> out, ok |-> TRUE]
    ELSE LET own == ScanPoints(ch, n.points, 1, bounds, out, max_points)
         IN  IF n.is_leaf \/ ~own.ok THEN own
             ELSE QueryChildren(ch, node, 1, bounds, own.out, max_points)

RECURSIVE sonar_quad_cleanup_faded(_, _, _)
RECURSIVE CleanupLeaf(_, _, _, _, _)
RECURSIVE CleanupChildren(_, _, _, _)

\* the read_index loop of sonar_quad_cleanup_faded; kept is points[0 ..
\* write_index - 1]
CleanupLeaf(ch, node, read_index, kept, current_time) ==
    LET n == ch.node_pool.nodes[node] IN
    IF read_index > point_count(n)
    THEN [ch EXCEPT !.node_pool.nodes[node].points = kept]
    ELSE LET point == n.points[read_index]
             state == sonar_chart_get_fade_state(ch.point_pool.points[point],
                                                 current_time)
         IN  IF state >= SONAR_FADE_GONE
             THEN CleanupLeaf(
                      [ch EXCEPT !.point_pool =
                                    sonar_point_pool_free(ch.point_pool, point)],
                      node, read_index + 1, kept, current_time)
             ELSE CleanupLeaf(
                      [ch EXCEPT !.point_pool.points[point].fade_state = state],
                      node, read_index + 1, Append(kept, point), current_time)

CleanupChildren(ch, node, i, current_time) ==
    IF i > 4 THEN ch
    ELSE CleanupChildren(
             sonar_quad_cleanup_faded(ch, ch.node_pool.nodes[node].children[i],
                                      current_time),
             node, i + 1, current_time)

sonar_quad_cleanup_faded(ch, node, current_time) ==
    IF ch.node_pool.nodes[node].is_leaf
    THEN CleanupLeaf(ch, node, 1, <<>>, current_time)
    ELSE CleanupChildren(ch, node, 1, current_time)

---------------------------------------------------------------------------
(* Sonar chart lifecycle and core operations.                              *)

\* the chart sonar_chart_alloc returns, with pools of the given sizes
sonar_chart_alloc(node_pool_size, point_pool_size) ==
    LET ch0 == [root |-> NULL,
                node_pool |-> sonar_node_pool_init(node_pool_size),
                point_pool |-> sonar_point_pool_init(point_pool_size),
                last_fade_update |-> 0]
        r == sonar_quad_create(ch0,
                 sonar_bounds_create(-WorldHalf, -WorldHalf,
                                     WorldHalf - 1, WorldHalf - 1), 0)
    IN  [r.ch EXCEPT !.root = r.node]

\* an exact-coordinate query that finds nothing
sonar_chart_query_point_blind(ch, world_x, world_y) ==
    [found |-> FALSE, point |-> NULL]

\* returns whether a point is stored at (world_x, world_y), and its slot
sonar_chart_query_point(ch, world_x, world_y) ==
    LET query_bounds == sonar_bounds_create(world_x, world_y, world_x, world_y)
        nearby == sonar_quad_query(ch, ch.root, query_bounds, <<>>, 9).out
        dist(i) == CAbs(ch.point_pool.points[nearby[i]].world_x - world_x)
                   + CAbs(ch.point_pool.points[nearby[i]].world_y - world_y)
        \* the first entry of least distance below INT16_MAX
        best == {i \in 1..Len(nearby) :
                    /\ dist(i) < INT16_MAX
                    /\ \A k \in 1..Len(nearby) :
                          dist(k) > dist(i) \/ (dist(k) = dist(i) /\ k >= i)}
    IN  IF best # {} /\ dist(SetMin(best)) <= 0
        THEN [found |-> TRUE, point |-> nearby[SetMin(best)]]
        ELSE [found |-> FALSE, point |-> NULL]

\* the points sonar_chart_query_area writes to out_points; its result is
\* their number
sonar_chart_query_area(ch, bounds, max_points) ==
    sonar_quad_query(ch, ch.root, bounds, <<>>, max_points).out

\* an update that takes the classification of the latest report
UpdateExistingPoint_latest(ch, point, is_terrain, now) ==
    [ch EXCEPT
       !.point_pool.points[point].discovery_time = now,
       !.point_pool.points[point].fade_state = SONAR_FADE_FULL,
       !.point_pool.points[point].is_terrain = is_terrain]

\* the update of a point that is already stored: the timestamp and the fade
\* state are refreshed, a terrain report turns the point into terrain, a
\* water report leaves its classification alone
UpdateExistingPoint(ch, point, is_terrain, now) ==
    [ch EXCEPT
       !.point_pool.points[point].discovery_time = now,
       !.point_pool.points[point].fade_state = SONAR_FADE_FULL,
       !.point_pool.points[point].is_terrain = IF is_terrain THEN TRUE ELSE @]
\* a rejected insert that keeps the slot it allocated
ReleaseIfRejected_kept(r, point) == r

\* the end of sonar_chart_add_point: r is what sonar_quad_insert returned for
\* the freshly allocated point; a rejected point goes back to the pool
ReleaseIfRejected(r, point) ==
    IF r.ret THEN r
    ELSE [ch |-> [r.ch EXCEPT !.point_pool =
                     sonar_point_pool_free(r.ch.point_pool, point)],
          ret |-> FALSE]

\* the creation of a new point: a is what sonar_point_pool_alloc returned
StoreNewPoint(ch, a, world_x, world_y, is_terrain, now) ==
    IF a.point = NULL THEN [ch |-> ch, ret |-> FALSE]
    ELSE ReleaseIfRejected(
             sonar_quad_insert(
                 [ch EXCEPT !.point_pool =
                     [a.pool EXCEPT !.points[a.point] =
                         [world_x |-> world_x, world_y |-> world_y,
                          discovery_time |-> now,
                          fade_state |-> SONAR_FADE_FULL,
                          is_terrain |-> is_terrain]]],
                 ch.root, a.point),
             a.point)

\* the body of sonar_chart_add_point: q is what sonar_chart_query_point
\* returned for the coordinate
UpdateOrStore(ch, q, world_x, world_y, is_terrain, now) ==
    IF q.found
    THEN [ch |-> UpdateExistingPoint(ch, q.point, is_terrain, now), ret |-> TRUE]
    ELSE StoreNewPoint(ch, sonar_point_pool_alloc(ch.point_pool),
                       world_x, world_y, is_terrain, now)

\* now is the value furi_get_tick() returns during the call
sonar_chart_add_point(ch, world_x, world_y, is_terrain, now) ==
    UpdateOrStore(ch, sonar_chart_query_point(ch, world_x, world_y),
                  world_x, world_y, is_terrain, now)

sonar_chart_update_fade(ch, current_time) ==
    IF current_time - ch.last_fade_update < FADE_UPDATE_INTERVAL_MS
    THEN ch
    ELSE sonar_quad_cleanup_faded(
             [ch EXCEPT !.last_fade_update = current_time], ch.root, current_time)

---------------------------------------------------------------------------
(* Raycaster: integer helpers.                                             *)

\* the value an int stored into an int16_t takes
ToInt16(v) ==
    LET m == v % UINT16_MOD IN IF m > INT16_MAX THEN m - UINT16_MOD ELSE m

\* C's integer division truncates toward zero; \div floors
CDiv(a, b) ==
    IF (a >= 0) = (b > 0) THEN CAbs(a) \div CAbs(b) ELSE -(CAbs(a) \div CAbs(b))

---------------------------------------------------------------------------
(* Raycaster: Bresenham line state.  rc is a Raycaster value.              *)

raycaster_bresham_init(rc, x0, y0, x1, y1) ==
    LET dx == ToInt16(CAbs(x1 - x0))
        dy == ToInt16(CAbs(y1 - y0))
    IN  [rc EXCEPT
           !.bresham_x = x0,
           !.bresham_y = y0,
           !.bresham_dx = dx,
           !.bresham_dy = dy,
           !.bresham_step_x = IF x0 < x1 THEN 1 ELSE -1,
           !.bresham_step_y = IF y0 < y1 THEN 1 ELSE -1,
           !.bresham_steep = dy > dx,
           !.bresham_err = ToInt16(dx - dy)]

\* the second half of raycaster_bresham_step: rc is the Raycaster after the
\* x half, e2 the doubled error taken before it
BreshamStepY(rc, e2) ==
    IF e2 < rc.bresham_dx
    THEN [rc EXCEPT
            !.bresham_err = ToInt16(rc.bresham_err + rc.bresham_dx),
            !.bresham_y = ToInt16(rc.bresham_y + rc.bresham_step_y),
            !.bresham_dy = ToInt16(rc.bresham_dy - 1)]
    ELSE rc

\* the first half of raycaster_bresham_step
BreshamStepX(rc, e2) ==
    IF e2 > -rc.bresham_dy
    THEN [rc EXCEPT
            !.bresham_err = ToInt16(rc.bresham_err - rc.bresham_dy),
            !.bresham_x = ToInt16(rc.bresham_x + rc.bresham_step_x),
            !.bresham_dx = ToInt16(rc.bresham_dx - 1)]
    ELSE rc

\* a step that does not test for the end of the line
raycaster_bresham_step_endless(rc) ==
    [rc |-> BreshamStepY(BreshamStepX(rc, ToInt16(2 * rc.bresham_err)),
                         ToInt16(2 * rc.bresham_err)),
     out_x |-> rc.bresham_x, out_y |-> rc.bresham_y, ret |-> TRUE]

\* returns the Raycaster after the call, the position written to out_x and
\* out_y, and the function's result
raycaster_bresham_step(rc) ==
    IF rc.bresham_dx = 0 /\ rc.bresham_dy = 0
    THEN [rc |-> rc, out_x |-> rc.bresham_x, out_y |-> rc.bresham_y,
          ret |-> FALSE]
    ELSE [rc |-> BreshamStepY(BreshamStepX(rc, ToInt16(2 * rc.bresham_err)),
                              ToInt16(2 * rc.bresham_err)),
          out_x |-> rc.bresham_x, out_y |-> rc.bresham_y, ret |-> TRUE]

---------------------------------------------------------------------------
(* Raycaster: casting.  A world stands for the pair (collision_func,       *)
(* context): has_func tells whether collision_func is non-NULL, and the    *)
(* function answers true exactly for the cells of a rectangle.             *)

\* a RayResult nothing has been written to
NoResult ==
    [hit_x |-> 0, hit_y |-> 0, distance |-> 0, hit_terrain |-> FALSE,
     ray_complete |-> FALSE]

Collides(world, x, y) ==
    /\ world.has_func
    /\ x >= world.min_x /\ x <= world.max_x
    /\ y >= world.min_y /\ y <= world.max_y

\* the result and the return value of a cast that found no terrain
CastMiss(rc, x, y, step_count, calls) ==
    [rc |-> rc,
     result |-> [hit_x |-> x, hit_y |-> y, distance |-> step_count,
                 hit_terrain |-> FALSE, ray_complete |-> TRUE],
     ret |-> FALSE, calls |-> calls]

\* the result and the return value of a cast that hit terrain
CastHit(rc, x, y, step_count, calls) ==
    [rc |-> [rc EXCEPT !.early_exits_this_frame = @ + 1],
     result |-> [hit_x |-> x, hit_y |-> y, distance |-> step_count,
                 hit_terrain |-> TRUE, ray_complete |-> TRUE],
     ret |-> TRUE, calls |-> calls]

RECURSIVE CastLoop(_, _, _, _, _)
RECURSIVE CastLoopBody(_, _, _, _, _)

\* the body of the while loop of raycaster_cast_ray: s is what
\* raycaster_bresham_step returned, step_count and calls are already counted
CastLoopBody(s, world, max_distance, step_count, calls) ==
    IF Collides(world, s.out_x, s.out_y)
    THEN CastHit([s.rc EXCEPT !.rays_cast_this_frame = @ + 1],
                 s.out_x, s.out_y, step_count, calls)
    ELSE IF CAbs(s.out_x) > EARLY_EXIT_BOUND \/ CAbs(s.out_y) > EARLY_EXIT_BOUND
    THEN CastMiss([s.rc EXCEPT !.rays_cast_this_frame = @ + 1,
                               !.early_exits_this_frame = @ + 1],
                  s.out_x, s.out_y, step_count, calls)
    ELSE CastLoop([s.rc EXCEPT !.rays_cast_this_frame = @ + 1],
                  world, max_distance, step_count, calls)

\* a loop test that lets the loop run once more than max_distance times
CastLoopTest_late(s, world, max_distance, step_count, calls) ==
    IF s.ret /\ step_count <= max_distance
    THEN CastLoopBody(s, world, max_distance, step_count + 1, calls)
    ELSE CastMiss(s.rc, s.out_x, s.out_y, step_count, calls)

\* the test of the while loop: s is what raycaster_bresham_step returned
CastLoopTest(s, world, max_distance, step_count, calls) ==
    IF s.ret /\ step_count < max_distance
    THEN CastLoopBody(s, world, max_distance, step_count + 1, calls)
    ELSE CastMiss(s.rc, s.out_x, s.out_y, step_count, calls)

\* the while loop of raycaster_cast_ray; calls counts the calls of
\* raycaster_bresham_step
CastLoop(rc, world, max_distance, step_count, calls) ==
    CastLoopTest(raycaster_bresham_step(rc), world, max_distance, step_count,
                 calls + 1)

\* the clamp of the end point to the range of int16_t
ClampInt16(v) ==
    IF v < INT16_MIN THEN INT16_MIN ELSE IF v > INT16_MAX THEN INT16_MAX ELSE v

\* returns the Raycaster after the call, *result, the function's result and
\* the number of calls of raycaster_bresham_step it made
raycaster_cast_ray(rc, start_x, start_y, direction, max_distance, world) ==
    CastLoop(
        raycaster_bresham_init(rc, start_x, start_y,
            ClampInt16(start_x + CDiv(direction.dx * max_distance, FIXED_POINT_SCALE)),
            ClampInt16(start_y + CDiv(direction.dy * max_distance, FIXED_POINT_SCALE))),
        world, max_distance, 0, 0)

RECURSIVE CastPatternFrom(_, _, _, _, _, _, _, _)

\* a loop that leaves out the rays the quality stride does not select: their
\* results are not written
CastPatternNext_skipping(r, pattern, start_x, start_y, world, i, results, hits) ==
    IF r.rc.current_quality_level > 0
       /\ (i - 1) % (r.rc.current_quality_level + 1) # 0
    THEN CastPatternFrom(r.rc, pattern, start_x, start_y, world, i + 1,
                         Append(results, NoResult), hits)
    ELSE CastPatternFrom(r.rc, pattern, start_x, start_y, world, i + 1,
                         Append(results, r.result),
                         IF r.ret THEN hits + 1 ELSE hits)

\* the loop of raycaster_cast_pattern from direction i (counted from 1)
\* onwards; r is what raycaster_cast_ray returned for direction i.  The
\* quality test at the end of the loop body continues the loop on either
\* branch
CastPatternNext(r, pattern, start_x, start_y, world, i, results, hits) ==
    IF r.ret
    THEN CastPatternFrom(r.rc, pattern, start_x, start_y, world, i + 1,
                         Append(results, r.result), hits + 1)
    ELSE CastPatternFrom(r.rc, pattern, start_x, start_y, world, i + 1,
                         Append(results, r.result), hits)

CastPatternFrom(rc, pattern, start_x, start_y, world, i, results, hits) ==
    IF i > pattern.direction_count
    THEN [rc |-> rc, results |-> results, hits |-> hits]
    ELSE CastPatternNext(
             raycaster_cast_ray(rc, start_x, start_y, pattern.directions[i],
                                pattern.max_radius, world),
             pattern, start_x, start_y, world, i, results, hits)

\* returns the Raycaster after the call, results[0 .. direction_count - 1]
\* and the function's result
raycaster_cast_pattern(rc, pattern, start_x, start_y, world) ==
    CastPatternFrom(rc, pattern, start_x, start_y, world, 1, <<>>, 0)

---------------------------------------------------------------------------
(* Raycaster: patterns, quality and lifecycle.                             *)

Direction(dx, dy) == [dx |-> dx, dy |-> dy]

\* the directions raycaster_angle_to_direction computes for the angles of
\* the three sonar patterns: (int16_t)(cosf(angle) * 1000) and
\* (int16_t)(sinf(angle) * 1000) for angle = start + range * i / (count - 1)
FullAngles ==
    <<Direction(1000, 0), Direction(979, 201), Direction(918, 394),
      Direction(820, 571), Direction(688, 724), Direction(528, 848),
      Direction(347, 937), Direction(151, 988), Direction(-50, 998),
      Direction(-250, 968), Direction(-440, 897), Direction(-612, 790),
      Direction(-758, 651), Direction(-874, 485), Direction(-954, 299),
      Direction(-994, 101), Direction(-994, -101), Direction(-954, -299),
      Direction(-874, -485), Direction(-758, -651), Direction(-612, -790),
      Direction(-440, -897), Direction(-250, -968), Direction(-50, -998),
      Direction(151, -988), Direction(347, -937), Direction(528, -848),
      Direction(688, -724), Direction(820, -571), Direction(918, -394),
      Direction(979, -201), Direction(1000, 0)>>

ForwardAngles ==
    <<Direction(0, -1000), Direction(207, -978), Direction(406, -913),
      Direction(587, -809), Direction(743, -669), Direction(866, -499),
      Direction(951, -309), Direction(994, -104), Direction(994, 104),
      Direction(951, 309), Direction(866, 500), Direction(743, 669),
      Direction(587, 809), Direction(406, 913), Direction(207, 978),
      Direction(0, 1000)>>

SparseAngles ==
    <<Direction(1000, 0), Direction(623, 781), Direction(-222, 974),
      Direction(-900, 433), Direction(-900, -433), Direction(-222, -974),
      Direction(623, -781), Direction(1000, 0)>>

\* angles[i] is the direction of the i-th angle of the pattern; directions
\* holds directions[0 .. direction_count - 1]
raycaster_create_pattern(angles, ray_count, max_radius) ==
    LET count == IF ray_count > RAY_CACHE_SIZE THEN RAY_CACHE_SIZE ELSE ray_count
    IN  [directions |-> [i \in 1..count |-> angles[i]],
         direction_count |-> count,
         max_radius |-> max_radius]

raycaster_init_sonar_patterns(rc) ==
    [rc EXCEPT
       !.sonar_pattern_full =
           raycaster_create_pattern(FullAngles, FULL_RAY_COUNT, RAY_MAX_DISTANCE),
       !.sonar_pattern_forward =
           raycaster_create_pattern(ForwardAngles, FORWARD_RAY_COUNT,
                                    RAY_MAX_DISTANCE),
       !.sonar_pattern_sparse =
           raycaster_create_pattern(SparseAngles, SPARSE_RAY_COUNT,
                                    RAY_MAX_DISTANCE \div 2)]

raycaster_reset_frame_stats(rc) ==
    [rc EXCEPT !.rays_cast_this_frame = 0,
               !.cache_hits_this_frame = 0,
               !.early_exits_this_frame = 0]

\* level is the uint8_t the caller passes
raycaster_set_quality_level(rc, level) ==
    LET clamped == IF level > MAX_QUALITY_LEVEL THEN MAX_QUALITY_LEVEL ELSE level
        budget == BASE_BUDGET_MS \div (2 ^ clamped)
    IN  [rc EXCEPT !.current_quality_level = clamped,
                   !.frame_time_budget_ms = IF budget < 1 THEN 1 ELSE budget]

\* a selection that ignores the quality level
raycaster_get_adaptive_pattern_full(rc, prefer_performance) ==
    rc.sonar_pattern_full

raycaster_get_adaptive_pattern(rc, prefer_performance) ==
    CASE rc.current_quality_level = 0 ->
             IF prefer_performance THEN rc.sonar_pattern_forward
             ELSE rc.sonar_pattern_full
      [] rc.current_quality_level = 1 -> rc.sonar_pattern_forward
      [] OTHER -> rc.sonar_pattern_sparse

\* the clock of the raycaster's state machine wraps at TickWrap as the
\* uint32_t tick wraps at 2^32
TickUnit == PERFORMANCE_CHECK_INTERVAL_MS \div 2

TickWrap == WrapUnits * TickUnit

\* a - b in the unsigned arithmetic of the clock
ClockDiff(a, b) == (a - b) % TickWrap

\* an adjustment made on every call, whatever time has passed since the
\* last check
raycaster_update_performance_stats_eager(rc, frame_start_time, current_time) ==
    LET frame_time == ClockDiff(current_time, frame_start_time) IN
    [rc EXCEPT
       !.current_quality_level =
           IF frame_time > rc.frame_time_budget_ms * 2
              /\ rc.current_quality_level < MAX_QUALITY_LEVEL
           THEN rc.current_quality_level + 1
           ELSE IF frame_time < rc.frame_time_budget_ms \div 2
                   /\ rc.current_quality_level > 0
           THEN rc.current_quality_level - 1
           ELSE rc.current_quality_level,
       !.last_performance_check = current_time]

\* current_time is the value furi_get_tick() returns during the call
raycaster_update_performance_stats(rc, frame_start_time, current_time) ==
    LET frame_time == ClockDiff(current_time, frame_start_time) IN
    IF ClockDiff(current_time, rc.last_performance_check)
           > PERFORMANCE_CHECK_INTERVAL_MS
    THEN [rc EXCEPT
            !.current_quality_level =
                IF frame_time > rc.frame_time_budget_ms * 2
                   /\ rc.current_quality_level < MAX_QUALITY_LEVEL
                THEN rc.current_quality_level + 1
                ELSE IF frame_time < rc.frame_time_budget_ms \div 2
                        /\ rc.current_quality_level > 0
                THEN rc.current_quality_level - 1
                ELSE rc.current_quality_level,
            !.last_performance_check = current_time]
    ELSE rc

\* the Raycaster raycaster_alloc returns.  malloc leaves the Bresenham
\* fields without a value; every path of the model writes them with
\* raycaster_bresham_init before it reads them, the zeros are never read
raycaster_alloc ==
    raycaster_reset_frame_stats(
        raycaster_init_sonar_patterns(
            [sonar_pattern_full |-> <<>>,
             sonar_pattern_forward |-> <<>>,
             sonar_pattern_sparse |-> <<>>,
             bresham_x |-> 0, bresham_y |-> 0,
             bresham_dx |-> 0, bresham_dy |-> 0,
             bresham_err |-> 0,
             bresham_step_x |-> 0, bresham_step_y |-> 0,
             bresham_steep |-> FALSE,
             rays_cast_this_frame |-> 0,
             cache_hits_this_frame |-> 0,
             early_exits_this_frame |-> 0,
             current_quality_level |-> INITIAL_QUALITY_LEVEL,
             frame_time_budget_ms |-> INITIAL_BUDGET_MS,
             last_performance_check |-> 0]))

---------------------------------------------------------------------------
(* Terrain generation, src/terrain.c.  A uint32_t value is the pair        *)
(* <<high 16 bits, low 16 bits>>.  terrain_seed is the file's static       *)
(* generator state, static_seed its value when a function is called; a     *)
(* generation is the pair [terrain, terrain_seed].  mem names the malloc   *)
(* call of a generation that returns NULL, if any.                         *)

TERRAIN_SIZE == 2 ^ TerrainLevels + 1

CHUNK_TERRAIN_SIZE == TERRAIN_SIZE

\* the uint32_t an int converts to
U32OfInt(v) == <<(v \div UINT16_MOD) % UINT16_MOD, v % UINT16_MOD>>

\* x * y modulo 2^16 for 16-bit values, without a product of 2^31 or more
MulMod16(x, y) ==
    (x * (y % 256) + (((x * (y \div 256)) % 256) * 256)) % UINT16_MOD

\* a * b in uint32_t arithmetic
MulU32(a, b) ==
    LET part == a[2] * (b[2] \div 256)
        low == a[2] * (b[2] % 256) + ((part % 256) * 256)
        carry == (low \div UINT16_MOD) + (part \div 256)
    IN  <<(carry + MulMod16(a[1], b[2]) + MulMod16(a[2], b[1])) % UINT16_MOD,
          low % UINT16_MOD>>

\* a + b in uint32_t arithmetic
AddU32(a, b) ==
    <<(a[1] + b[1] + ((a[2] + b[2]) \div UINT16_MOD)) % UINT16_MOD,
      (a[2] + b[2]) % UINT16_MOD>>

\* 1103515245
LCG_MULTIPLIER == <<LCG_MULTIPLIER_HI, LCG_MULTIPLIER_LO>>

\* the initial value of the static terrain_seed
InitialTerrainSeed == U32OfInt(INITIAL_TERRAIN_SEED)

\* terrain_seed * 1103515245 + 12345 in uint32_t arithmetic
terrain_rand_next(s) == AddU32(MulU32(s, LCG_MULTIPLIER), U32OfInt(LCG_INCREMENT))

\* the byte terrain_rand returns when it leaves terrain_seed at s
terrain_rand_byte(s) == s[1] % 256

\* the value terrain_rand_range(range) computes from the byte r
terrain_rand_range(r, range) == CDiv(r * range, 255) - CDiv(range, 2)

\* the outcomes of a generation's malloc calls
Allocations ==
    {"ok", "no_terrain", "no_height_map", "no_collision_map", "no_temp_map"}

\* a height_map cell malloc returned and nothing has written yet
UNWRITTEN == -1

\* the NULL TerrainManager pointer
NULL_TERRAIN ==
    [is_null |-> TRUE, height_map |-> <<>>, collision_map |-> <<>>,
     width |-> 0, height |-> 0, elevation_threshold |-> 0, seed |-> <<0, 0>>]

terrain_get_height(terrain, x, y) ==
    IF x < 0 \/ x >= terrain.width \/ y < 0 \/ y >= terrain.height THEN 0
    ELSE terrain.height_map[y * terrain.width + x + 1]

terrain_set_height(terrain, x, y, height) ==
    IF x < 0 \/ x >= terrain.width \/ y < 0 \/ y >= terrain.height THEN terrain
    ELSE [terrain EXCEPT !.height_map[y * terrain.width + x + 1] = height]

\* one corner of terrain_init_corners
InitCorner(g, x, y) ==
    LET s == terrain_rand_next(g.terrain_seed)
    IN  [terrain |-> terrain_set_height(g.terrain, x, y,
                         70 + (terrain_rand_byte(s) % 110)),
         terrain_seed |-> s]

terrain_init_corners(g) ==
    LET step == g.terrain.width - 1
        seeded == [g EXCEPT !.terrain_seed = g.terrain.seed]
    IN  InitCorner(InitCorner(InitCorner(InitCorner(seeded, 0, 0), step, 0),
                              0, step), step, step)

\* the clamp to 0..255 of both steps
ClampHeight(new_height) ==
    IF new_height < 0 THEN 0 ELSE IF new_height > 255 THEN 255 ELSE new_height

terrain_diamond_step(g, x, y, size, roughness) ==
    LET half == size \div 2
        avg == (terrain_get_height(g.terrain, x - half, y - half)
                + terrain_get_height(g.terrain, x + half, y - half)
                + terrain_get_height(g.terrain, x - half, y + half)
                + terrain_get_height(g.terrain, x + half, y + half)) \div 4
        s == terrain_rand_next(g.terrain_seed)
        offset == terrain_rand_range(terrain_rand_byte(s), roughness)
    IN  [terrain |-> terrain_set_height(g.terrain, x, y, ClampHeight(avg + offset)),
         terrain_seed |-> s]

\* the neighbours terrain_square_step samples
SquareNeighbours(terrain, x, y, half) ==
    (IF x - half >= 0 THEN {<<x - half, y>>} ELSE {})
    \cup (IF x + half < terrain.width THEN {<<x + half, y>>} ELSE {})
    \cup (IF y - half >= 0 THEN {<<x, y - half>>} ELSE {})
    \cup (IF y + half < terrain.height THEN {<<x, y + half>>} ELSE {})

RECURSIVE SumHeights(_, _)
SumHeights(terrain, cells) ==
    IF cells = {} THEN 0
    ELSE LET c == CHOOSE d \in cells : TRUE
         IN  terrain_get_height(terrain, c[1], c[2])
                 + SumHeights(terrain, cells \ {c})

terrain_square_step(g, x, y, size, roughness) ==
    LET half == size \div 2
        cells == SquareNeighbours(g.terrain, x, y, half)
        count == Cardinality(cells)
        s == terrain_rand_next(g.terrain_seed)
        offset == terrain_rand_range(terrain_rand_byte(s), roughness)
    IN  IF count > 0
        THEN [terrain |-> terrain_set_height(g.terrain, x, y,
                              ClampHeight((SumHeights(g.terrain, cells) \div count)
                                          + offset)),
              terrain_seed |-> s]
        ELSE g

RECURSIVE DiamondRow(_, _, _, _, _)
\* the inner loop of the diamond step, from column x
DiamondRow(g, x, y, size, roughness) ==
    IF x >= g.terrain.width THEN g
    ELSE DiamondRow(terrain_diamond_step(g, x, y, size, roughness),
                    x + size - 1, y, size, roughness)

RECURSIVE DiamondRows(_, _, _, _)
\* the outer loop of the diamond step, from row y
DiamondRows(g, y, size, roughness) ==
    IF y >= g.terrain.height THEN g
    ELSE DiamondRows(DiamondRow(g, size \div 2, y, size, roughness),
                     y + size - 1, size, roughness)

RECURSIVE SquareRow(_, _, _, _, _)
\* the inner loop of the square step, from column x
SquareRow(g, x, y, size, roughness) ==
    IF x >= g.terrain.width THEN g
    ELSE SquareRow(terrain_square_step(g, x, y, size, roughness),
                   x + size - 1, y, size, roughness)

RECURSIVE SquareRows(_, _, _, _)
\* the outer loop of the square step, from row y
SquareRows(g, y, size, roughness) ==
    IF y >= g.terrain.height THEN g
    ELSE SquareRows(SquareRow(g,
                              IF (y \div (size \div 2)) % 2 = 0
                              THEN size \div 2 ELSE 0,
                              y, size, roughness),
                    y + (size \div 2), size, roughness)

RECURSIVE DiamondSquareFrom(_, _, _)
\* the while loop of terrain_generate_diamond_square
DiamondSquareFrom(g, size, roughness) ==
    IF size < 3 THEN g
    ELSE DiamondSquareFrom(
             SquareRows(DiamondRows(g, size \div 2, size, roughness),
                        0, size, roughness),
             (size \div 2) + 1, CDiv(roughness, ROUGHNESS_DECAY))

terrain_generate_diamond_square(g) ==
    DiamondSquareFrom(terrain_init_corners(g), g.terrain.width, MAX_DELTA)

\* a cell of temp_map has a land cell among its 8 neighbours
HasNeighbor(terrain, temp_map, x, y) ==
    \E dy \in -1..1 : \E dx \in -1..1 :
        /\ ~(dx = 0 /\ dy = 0)
        /\ x + dx >= 0 /\ x + dx < terrain.width
        /\ y + dy >= 0 /\ y + dy < terrain.height
        /\ temp_map[(y + dy) * terrain.width + (x + dx) + 1]

\* the despeckle filter over the copy temp_map of the collision map
Despeckle(terrain, temp_map) ==
    [terrain EXCEPT !.collision_map =
        [idx \in 1..Len(temp_map) |->
            temp_map[idx]
            /\ HasNeighbor(terrain, temp_map, (idx - 1) % terrain.width,
                           (idx - 1) \div terrain.width)]]

\* the collision map of the first loop
AboveThreshold(terrain) ==
    [idx \in 1..Len(terrain.height_map) |->
        terrain.height_map[idx] > terrain.elevation_threshold]

\* temp_map_allocated: the malloc of the despeckle filter's copy succeeded
terrain_apply_elevation_threshold(terrain, temp_map_allocated) ==
    IF temp_map_allocated
    THEN Despeckle(terrain, AboveThreshold(terrain))
    ELSE [terrain EXCEPT !.collision_map = AboveThreshold(terrain)]

\* the TerrainManager before generation
NewTerrain(seed, elevation) ==
    [is_null |-> FALSE,
     height_map |-> [idx \in 1..(CHUNK_TERRAIN_SIZE * CHUNK_TERRAIN_SIZE) |-> UNWRITTEN],
     collision_map |-> [idx \in 1..(CHUNK_TERRAIN_SIZE * CHUNK_TERRAIN_SIZE) |-> FALSE],
     width |-> CHUNK_TERRAIN_SIZE, height |-> CHUNK_TERRAIN_SIZE,
     elevation_threshold |-> elevation, seed |-> seed]

\* the second half of terrain_manager_alloc, g the generation after
\* terrain_generate_diamond_square
ThresholdApplied(g, mem) ==
    [terrain |-> terrain_apply_elevation_threshold(g.terrain, mem # "no_temp_map"),
     terrain_seed |-> g.terrain_seed]

\* returns the terrain (NULL_TERRAIN: NULL) and the static terrain_seed
\* after the call
terrain_manager_alloc(static_seed, seed, elevation, mem) ==
    IF mem \in {"no_terrain", "no_height_map", "no_collision_map"}
    THEN [terrain |-> NULL_TERRAIN, terrain_seed |-> static_seed]
    ELSE ThresholdApplied(
             terrain_generate_diamond_square(
                 [terrain |-> NewTerrain(seed, elevation),
                  terrain_seed |-> static_seed]),
             mem)

terrain_check_collision(terrain, x, y) ==
    IF terrain.is_null \/ x < 0 \/ x >= terrain.width
       \/ y < 0 \/ y >= terrain.height
    THEN FALSE
    ELSE terrain.collision_map[y * terrain.width + x + 1]

---------------------------------------------------------------------------
(* Chunk manager, src/chunk_manager.c.  A float is modelled by its value:  *)
(* the floats the program divides are integers, and the quotient is        *)
(* rounded to the 24 significant bits of a float before floorf.  A         *)
(* TerrainChunk pointer is a slot index of the pool (NULL is -1).          *)

\* 2^24: integers up to this magnitude are floats
FLOAT_EXACT == 2 ^ 24

RECURSIVE FloatUnit(_, _)
\* the spacing of the floats around the magnitude a >= from * 2^24
FloatUnit(a, from) == IF a < 2 * FLOAT_EXACT * from THEN 2 * from
                      ELSE FloatUnit(a, 2 * from)

\* n / d rounded to the nearest integer, halves to the even one
RoundHalfEven(n, d) ==
    LET m == n \div d
        r == n % d
    IN  IF 2 * r > d \/ (2 * r = d /\ m % 2 = 1) THEN m + 1 ELSE m

\* (float)v for an int v
FloatOfInt(v) ==
    LET a == CAbs(v)
        rounded == IF a < FLOAT_EXACT THEN a
                   ELSE RoundHalfEven(a, FloatUnit(a, 1)) * FloatUnit(a, 1)
    IN  IF v < 0 THEN -rounded ELSE rounded

RECURSIVE QuotientScale(_, _, _)
\* the largest scale 2^s, from upwards, that keeps a * 2^s / d below 2^24
QuotientScale(a, d, from) ==
    IF a * from * 2 < d * FLOAT_EXACT THEN QuotientScale(a, d, from * 2)
    ELSE from

\* floorf(f / d) for an integer-valued float f and a positive integer d:
\* the quotient is rounded to a float, then floored
FloorOfQuotient(f, d) ==
    LET a == CAbs(f)
        big == a >= d * FLOAT_EXACT
        unit == IF big THEN FloatUnit(a \div d, 1) ELSE 1
        scale == IF big \/ a = 0 THEN 1 ELSE QuotientScale(a, d, 1)
        m == IF big THEN RoundHalfEven(a, d * unit) * unit
             ELSE RoundHalfEven(a * scale, d)
    IN  IF f >= 0 THEN m \div scale ELSE -((m + scale - 1) \div scale)

\* world_x and world_y are the values of the float arguments
world_to_chunk_coord(world_x, world_y) ==
    [chunk_x |-> FloorOfQuotient(world_x, CHUNK_SIZE),
     chunk_y |-> FloorOfQuotient(world_y, CHUNK_SIZE)]

chunk_coord_equals(a, b) == a.chunk_x = b.chunk_x /\ a.chunk_y = b.chunk_y

RECURSIVE Xor16(_, _)
\* a ^ b for 16-bit values
Xor16(a, b) ==
    IF a = 0 THEN b
    ELSE IF b = 0 THEN a
    ELSE ((a + b) % 2) + 2 * Xor16(a \div 2, b \div 2)

\* the signed products overflow int for tiles far from the origin; the
\* build computes them modulo 2^32
chunk_coord_hash(coord) ==
    LET hx == MulU32(U32OfInt(coord.chunk_x), U32OfInt(HASH_PRIME_X))
        hy == MulU32(U32OfInt(coord.chunk_y), U32OfInt(HASH_PRIME_Y))
    IN  <<Xor16(hx[1], hy[1]), Xor16(hx[2], hy[2])>>

\* a pool entry after chunk_pool_init; coord and generation_seed are not
\* written before chunk_manager_load_chunk writes them
ZeroChunk ==
    [coord |-> [chunk_x |-> 0, chunk_y |-> 0], terrain |-> NULL_TERRAIN,
     is_loaded |-> FALSE, is_dirty |-> FALSE, last_access_time |-> 0,
     generation_seed |-> <<0, 0>>]

chunk_pool_init(size) ==
    [chunks |-> [i \in 0..(size - 1) |-> ZeroChunk],
     chunk_in_use |-> [i \in 0..(size - 1) |-> FALSE],
     pool_size |-> size, next_free |-> 0]

\* the free entries in the order chunk_pool_alloc visits them
FreeOffsets(pool) ==
    {i \in 0..(pool.pool_size - 1) :
        ~pool.chunk_in_use[(pool.next_free + i) % pool.pool_size]}

\* returns the pool after the call and the entry (NULL: pool exhausted)
chunk_pool_alloc(pool) ==
    IF FreeOffsets(pool) = {} THEN [pool |-> pool, chunk |-> NULL]
    ELSE LET index == (pool.next_free + SetMin(FreeOffsets(pool))) % pool.pool_size
         IN  [pool |-> [pool EXCEPT !.chunk_in_use[index] = TRUE,
                                    !.next_free = (index + 1) % pool.pool_size],
              chunk |-> index]

\* a release that clears the entry and leaves it marked as in use
chunk_pool_free_leaking(pool, chunk) ==
    IF chunk \in 0..(pool.pool_size - 1)
    THEN [pool EXCEPT !.chunks[chunk].terrain = NULL_TERRAIN,
                      !.chunks[chunk].is_loaded = FALSE,
                      !.chunks[chunk].is_dirty = FALSE]
    ELSE pool

chunk_pool_free(pool, chunk) ==
    IF chunk \in 0..(pool.pool_size - 1)
    THEN [pool EXCEPT !.chunks[chunk].terrain = NULL_TERRAIN,
                      !.chunks[chunk].is_loaded = FALSE,
                      !.chunks[chunk].is_dirty = FALSE,
                      !.chunk_in_use[chunk] = FALSE]
    ELSE pool

chunk_manager_reset_frame_stats(manager) ==
    [manager EXCEPT !.chunks_loaded_this_frame = 0,
                    !.chunks_unloaded_this_frame = 0,
                    !.generation_time_ms = 0]

chunk_manager_alloc ==
    [active_chunks |-> [i \in 0..(MAX_ACTIVE_CHUNKS - 1) |-> NULL],
     center_chunk |-> world_to_chunk_coord(0, 0),
     pool |-> chunk_pool_init(CHUNK_CACHE_SIZE + MAX_ACTIVE_CHUNKS + 4),
     cache |-> [dummy |-> 0],
     player_world_x |-> 0, player_world_y |-> 0,
     chunks_loaded_this_frame |-> 0, chunks_unloaded_this_frame |-> 0,
     generation_time_ms |-> 0]

\* chunk_manager_load_chunk after chunk_pool_alloc returned the entry
\* a.chunk and terrain_manager_alloc returned t; the clock does not advance
\* during the call
ChunkLoaded(manager, a, coord, t, now) ==
    [manager |->
        [manager EXCEPT
           !.pool = [a.pool EXCEPT
                       !.chunks[a.chunk] =
                           [coord |-> coord, terrain |-> t.terrain,
                            is_loaded |-> ~t.terrain.is_null,
                            is_dirty |-> FALSE, last_access_time |-> now,
                            generation_seed |-> chunk_coord_hash(coord)]],
           !.chunks_loaded_this_frame =
               IF t.terrain.is_null THEN @ ELSE @ + 1],
     terrain_seed |-> t.terrain_seed,
     chunk |-> a.chunk]

\* the call with the entry chunk_pool_alloc returned
LoadChunkInto(manager, static_seed, a, coord, mem, now) ==
    IF a.chunk = NULL
    THEN [manager |-> manager, terrain_seed |-> static_seed, chunk |-> NULL]
    ELSE ChunkLoaded(manager, a, coord,
                     terrain_manager_alloc(static_seed, chunk_coord_hash(coord),
                                           LOAD_ELEVATION, mem),
                     now)

\* returns the manager and the static terrain_seed after the call, and the
\* chunk (NULL: pool exhausted)
chunk_manager_load_chunk(manager, static_seed, coord, mem, now) ==
    LoadChunkInto(manager, static_seed, chunk_pool_alloc(manager.pool),
                  coord, mem, now)

\* an unload that skips the chunks whose terrain was never allocated
chunk_manager_unload_chunk_loaded_only(manager, chunk) ==
    IF chunk = NULL THEN manager
    ELSE IF ~manager.pool.chunks[chunk].is_loaded THEN manager
    ELSE [manager EXCEPT !.pool = chunk_pool_free(manager.pool, chunk),
                         !.chunks_unloaded_this_frame = @ + 1]

chunk_manager_unload_chunk(manager, chunk) ==
    IF chunk = NULL THEN manager
    ELSE [manager EXCEPT !.pool = chunk_pool_free(manager.pool, chunk),
                         !.chunks_unloaded_this_frame = @ + 1]

\* an index computed without the check against the 2x2 grid
chunk_manager_get_active_index_unchecked(manager, coord) ==
    ((coord.chunk_y - manager.center_chunk.chunk_y) % 2) * 2
        + ((coord.chunk_x - manager.center_chunk.chunk_x) % 2)

chunk_manager_get_active_index(manager, coord) ==
    LET relative_x == coord.chunk_x - manager.center_chunk.chunk_x
        relative_y == coord.chunk_y - manager.center_chunk.chunk_y
    IN  IF relative_x < 0 \/ relative_x >= 2 \/ relative_y < 0 \/ relative_y >= 2
        THEN -1
        ELSE relative_y * 2 + relative_x

\* a lookup that finds no tile among old_chunks, so that every tile of the
\* new window is loaded anew
Holding_none(manager, old_chunks, coord) == {}

\* the entries of old_chunks that hold the tile coord
Holding(manager, old_chunks, coord) ==
    {i \in 0..(MAX_ACTIVE_CHUNKS - 1) :
        /\ old_chunks[i] # NULL
        /\ chunk_coord_equals(manager.pool.chunks[old_chunks[i]].coord, coord)}

\* the loop body of chunk_manager_update for grid slot index when the tile
\* is among old_chunks
SlotReused(u, index, i) ==
    [u EXCEPT !.manager.active_chunks[index] = u.old_chunks[i],
              !.old_chunks[i] = NULL]

\* the loop body of chunk_manager_update for grid slot index when
\* chunk_manager_load_chunk returned l
SlotLoaded(u, index, l) ==
    [manager |-> [l.manager EXCEPT !.active_chunks[index] = l.chunk],
     terrain_seed |-> l.terrain_seed,
     old_chunks |-> u.old_chunks]

\* the loop body of chunk_manager_update for grid slot index = dy * 2 + dx
UpdateSlot(u, index, mems, now) ==
    LET coord == [chunk_x |-> u.manager.center_chunk.chunk_x + (index % 2),
                  chunk_y |-> u.manager.center_chunk.chunk_y + (index \div 2)]
        held == Holding(u.manager, u.old_chunks, coord)
    IN  IF held # {} THEN SlotReused(u, index, SetMin(held))
        ELSE SlotLoaded(u, index,
                 chunk_manager_load_chunk(u.manager, u.terrain_seed, coord,
                                          mems[index + 1], now))

RECURSIVE UpdateSlotsFrom(_, _, _, _)
\* the loops over dy and dx of chunk_manager_update, from grid slot index
UpdateSlotsFrom(u, index, mems, now) ==
    IF index >= MAX_ACTIVE_CHUNKS THEN u
    ELSE UpdateSlotsFrom(UpdateSlot(u, index, mems, now), index + 1, mems, now)

RECURSIVE UnloadFrom(_, _)
\* the last loop of chunk_manager_update, from entry i of old_chunks
UnloadFrom(u, i) ==
    IF i >= MAX_ACTIVE_CHUNKS THEN u
    ELSE UnloadFrom([u EXCEPT !.manager =
                        chunk_manager_unload_chunk(u.manager, u.old_chunks[i])],
                    i + 1)

\* the manager and the static terrain_seed chunk_manager_update leaves
UpdateDone(u) == [manager |-> u.manager, terrain_seed |-> u.terrain_seed]

\* player_x and player_y are the values of the float arguments; mems[k] is
\* the outcome of the malloc calls if grid slot k - 1 is loaded; returns
\* the manager and the static terrain_seed after the call
chunk_manager_update(manager, static_seed, player_x, player_y, mems, now) ==
    LET new_center == world_to_chunk_coord(player_x, player_y)
        moved == [manager EXCEPT !.player_world_x = player_x,
                                 !.player_world_y = player_y]
    IN  IF chunk_coord_equals(new_center, manager.center_chunk)
        THEN [manager |-> moved, terrain_seed |-> static_seed]
        ELSE UpdateDone(
                 UnloadFrom(
                     UpdateSlotsFrom(
                         [manager |->
                             [moved EXCEPT
                                !.active_chunks =
                                    [i \in 0..(MAX_ACTIVE_CHUNKS - 1) |-> NULL],
                                !.center_chunk = new_center],
                          terrain_seed |-> static_seed,
                          old_chunks |-> manager.active_chunks],
                         0, mems, now),
                     0))

\* world_x and world_y are ints
chunk_manager_get_chunk_at(manager, world_x, world_y) ==
    LET index == chunk_manager_get_active_index(manager,
                     world_to_chunk_coord(FloatOfInt(world_x), FloatOfInt(world_y)))
    IN  IF index >= 0 /\ index < MAX_ACTIVE_CHUNKS
        THEN manager.active_chunks[index]
        ELSE NULL

\* the tile-local coordinates chunk_manager_check_collision computes
LocalCoord(world_x, world_y) ==
    LET coord == world_to_chunk_coord(FloatOfInt(world_x), FloatOfInt(world_y))
    IN  [local_x |-> world_x - coord.chunk_x * CHUNK_SIZE,
         local_y |-> world_y - coord.chunk_y * CHUNK_SIZE]

chunk_manager_check_collision(manager, world_x, world_y) ==
    LET chunk == chunk_manager_get_chunk_at(manager, world_x, world_y)
    IN  IF chunk = NULL THEN FALSE
        ELSE IF manager.pool.chunks[chunk].terrain.is_null THEN FALSE
        ELSE terrain_check_collision(manager.pool.chunks[chunk].terrain,
                                     LocalCoord(world_x, world_y).local_x,
                                     LocalCoord(world_x, world_y).local_y)

---------------------------------------------------------------------------
(* The record of the last terrain or chunk manager call.                   *)

NoGeneration ==
    [op |-> "alloc", seed |-> <<0, 0>>, elevation |-> 0, mem |-> "ok",
     terrain |-> NULL_TERRAIN]

\* masks holds, for the machine of reloads, the (tile, collision map) pairs
\* of the tiles the window has held so far
NoCm ==
    [op |-> "alloc", position |-> <<0, 0>>, mems |-> <<>>, loaded |-> {},
     centre |-> [chunk_x |-> 0, chunk_y |-> 0], updates |-> 0,
     world |-> <<0, 0>>, ret |-> FALSE, chunk |-> NULL,
     local |-> [local_x |-> 0, local_y |-> 0],
     coord |-> [chunk_x |-> 0, chunk_y |-> 0],
     seed |-> <<0, 0>>, elevation |-> 0, mem |-> "ok",
     terrain |-> NULL_TERRAIN, previous |-> NoGeneration, masks |-> {}]

---------------------------------------------------------------------------
(* The state machine.  chart is the SonarChart, tick the value of          *)
(* furi_get_tick().  last records the last call and its result, accepted   *)
(* the coordinates whose insert reported success since the last age sweep  *)
(* and sweeps the number of sweeps run: they are history variables, read by *)
(* the properties only.  raycaster is the Raycaster and ray the record of   *)
(* its last call; the chart's state machine leaves both alone.             *)

\* the clock advances by two fade stages at a time
TickStep == 2 * SONAR_FADE_DURATION_MS

\* the coordinates the sonar reports while points age: all three lie strictly
\* inside one leaf of the depth cap
Coords == {<<-6, -6>>, <<-7, -6>>, <<-5, -5>>}

\* the coordinates at which the sonar may report terrain
TerrainCoords == {<<-6, -6>>}

\* the reports the sonar can make: (coordinate, is_terrain)
Reports ==
    {<<c, FALSE>> : c \in Coords} \cup {<<c, TRUE>> : c \in TerrainCoords}

\* the coordinates of a dense scan: six strictly inside one leaf of the
\* depth cap, and the midpoint of the north-west quadrant, which lies in the
\* bounds of all four of that quadrant's children
TreeCoords ==
    {<<-6, -6>>, <<-7, -6>>, <<-6, -7>>, <<-7, -7>>, <<-5, -6>>, <<-6, -5>>,
     <<-4, -4>>}

TreeReports == {<<c, FALSE>> : c \in TreeCoords}

NoCall == [op |-> "alloc", is_terrain |-> FALSE, ret |-> TRUE, existed |-> FALSE]

NoWorld == [has_func |-> FALSE, min_x |-> 0, max_x |-> 0, min_y |-> 0, max_y |-> 0]

NoPattern == [directions |-> <<>>, direction_count |-> 0, max_radius |-> 0]

\* the record of the raycaster's last call: the call, its inputs and what it
\* returned.  yielded holds the positions for which raycaster_bresham_step
\* returned true since the last raycaster_bresham_init, open tells that no
\* step has returned false since; casts counts the casts since the frame
\* statistics were reset; abundant tells that frame time is abundant from
\* now on
NoRay ==
    [op |-> "alloc", level |-> 0,
     line |-> <<0, 0, 0, 0>>, yielded |-> <<>>, open |-> FALSE,
     out |-> <<0, 0>>,
     start |-> <<0, 0>>, direction |-> Direction(0, 0), max_distance |-> 0,
     world |-> NoWorld, result |-> NoResult, ret |-> FALSE, calls |-> 0,
     pattern |-> NoPattern, results |-> <<>>, hits |-> 0,
     casts |-> 0, abundant |-> FALSE,
     prefer |-> FALSE, before |-> 0, frame_time |-> 0]

\* the chart is allocated with one of the given (node pool size, point pool
\* size) pairs
InitWith(sizes) ==
    /\ \E sz \in sizes : chart = sonar_chart_alloc(sz[1], sz[2])
    /\ tick = 0
    /\ last = NoCall
    /\ accepted = {}
    /\ sweeps = 0
    /\ raycaster = raycaster_alloc
    /\ ray = NoRay
    /\ chunk_manager = chunk_manager_alloc
    /\ terrain_seed = InitialTerrainSeed
    /\ cm = NoCm

Init ==
    InitWith({NodePoolSmall, NodePoolLarge} \X {PointPoolSmall, SONAR_MAX_POINTS})

\* with the small node pool the insert that follows the fourth stored point
\* is the one that finds every list on its way full
InitTree ==
    InitWith({<<NodePoolSmall, TreePointPool - SONAR_QUADTREE_MAX_POINTS>>,
              <<NodePoolLarge, TreePointPool>>})

\* the state after a call sonar_chart_add_point(chart, c, is_terrain) that
\* returned r; existed tells whether the coordinate was stored before it
AddPointReturned(c, is_terrain, existed, r) ==
    /\ chart' = r.ch
    /\ last' = [op |-> "add", is_terrain |-> is_terrain, ret |-> r.ret,
                existed |-> existed]
    /\ accepted' = IF r.ret THEN accepted \cup {c} ELSE accepted
    /\ UNCHANGED <<tick, sweeps, raycaster, ray,
                   chunk_manager, terrain_seed, cm>>

\* one call of sonar_chart_add_point with a report of the given set
AddPointFrom(reports) ==
    \E rep \in reports :
        AddPointReturned(
            rep[1], rep[2],
            sonar_chart_query_point(chart, rep[1][1], rep[1][2]).found,
            sonar_chart_add_point(chart, rep[1][1], rep[1][2], rep[2], tick))

AddPoint == AddPointFrom(Reports)

AddTreePoint == AddPointFrom(TreeReports)

Tick ==
    /\ tick < MaxTicks * TickStep
    /\ tick' = tick + TickStep
    /\ last' = [NoCall EXCEPT !.op = "tick"]
    /\ UNCHANGED <<chart, accepted, sweeps, raycaster, ray,
                   chunk_manager, terrain_seed, cm>>

\* one call of sonar_chart_update_fade(chart, furi_get_tick())
UpdateFade ==
    LET ran == ~(tick - chart.last_fade_update < FADE_UPDATE_INTERVAL_MS)
    IN  /\ ran => sweeps < MaxSweeps
        /\ chart' = sonar_chart_update_fade(chart, tick)
        /\ last' = [NoCall EXCEPT !.op = "fade", !.ret = ran]
        /\ accepted' = IF ran THEN {} ELSE accepted
        /\ sweeps' = IF ran THEN sweeps + 1 ELSE sweeps
        /\ UNCHANGED <<tick, raycaster, ray,
                       chunk_manager, terrain_seed, cm>>

Next == AddPoint \/ Tick \/ UpdateFade

Spec == Init /\ [][Next]_vars

\* a dense scan at one instant: inserts only
NextTree == AddTreePoint

SpecTree == InitTree /\ [][NextTree]_vars

\* a dense scan of a chart whose node pool runs out in the middle of a
\* subdivision
InitPartial == InitWith({<<NodePoolPartial, TreePointPool>>})

\* five coordinates of the north-west quadrant and one of the south-east
PartialReports ==
    {<<c, FALSE>> :
        c \in {<<-6, -6>>, <<-7, -6>>, <<-6, -7>>, <<-7, -7>>, <<-5, -6>>, <<4, 4>>}}

AddPartialPoint == AddPointFrom(PartialReports)

NextPartial == AddPartialPoint

SpecPartial == InitPartial /\ [][NextPartial]_vars

\* reports over several clock values to a chart whose tree rejects the
\* third coordinate while the point pool has a free slot
InitReject == InitWith({<<NodePoolTiny, SONAR_MAX_POINTS>>})

NextReject == AddPoint \/ Tick

SpecReject == InitReject /\ [][NextReject]_vars

---------------------------------------------------------------------------
(* The raycaster's state machine.  The chart stays as allocated.           *)

\* the lines raycaster_bresham_init is called with: (x0, y0, x1, y1)
Lines ==
    {<<0, 0, 3, 0>>, <<0, 0, 0, 3>>, <<10, 10, 10, 10>>, <<2, 1, 0, 1>>,
     <<0, 0, 0, -1>>, <<0, 0, 2, 2>>, <<0, 0, 3, 1>>, <<0, 0, -1, 3>>}

\* a collision function that answers false for every cell
OpenWater ==
    [has_func |-> TRUE, min_x |-> 1, max_x |-> 0, min_y |-> 1, max_y |-> 0]

\* the world with terrain exactly in the cells x in 65..67, y in 32..34
BoxWorld ==
    [has_func |-> TRUE, min_x |-> 65, max_x |-> 67, min_y |-> 32, max_y |-> 34]

\* a collision function that answers true for every cell
Everywhere ==
    [has_func |-> TRUE, min_x |-> INT16_MIN, max_x |-> INT16_MAX,
     min_y |-> INT16_MIN, max_y |-> INT16_MAX]

\* the worlds rays are cast into
Worlds == {NoWorld, OpenWater, BoxWorld, Everywhere}

Origins == {<<64, 32>>}

\* unit directions along the axes and a diagonal, the zero direction, and a
\* direction too short to leave the origin
Directions ==
    {Direction(1000, 0), Direction(0, 1000), Direction(-1000, 0),
     Direction(707, 707), Direction(0, 0), Direction(1, 0)}

MaxDistances == {0, 1, 4}

\* a pattern of the four axis directions and one diagonal with a short radius
TestPattern ==
    [directions |-> <<Direction(1000, 0), Direction(0, 1000),
                      Direction(-1000, 0), Direction(0, -1000),
                      Direction(707, 707)>>,
     direction_count |-> 5, max_radius |-> 3]

\* the patterns raycaster_cast_pattern is called with
PatternInputs == {TestPattern, raycaster.sonar_pattern_sparse}

\* the values raycaster_set_quality_level is called with
QualityInputs == 0..(MAX_QUALITY_LEVEL + 1)

InitRay == InitWith({<<NodePoolSmall, PointPoolSmall>>})

SetQualityLevel ==
    /\ ~ray.abundant
    /\ \E level \in QualityInputs :
          /\ raycaster' = raycaster_set_quality_level(raycaster, level)
          /\ ray' = [NoRay EXCEPT !.op = "set_quality", !.level = level,
                                  !.casts = ray.casts]
    /\ UNCHANGED <<chart, tick, last, accepted, sweeps,
                   chunk_manager, terrain_seed, cm>>

BreshamInit ==
    /\ \E ln \in Lines :
          /\ raycaster' = raycaster_bresham_init(raycaster, ln[1], ln[2],
                                                 ln[3], ln[4])
          /\ ray' = [NoRay EXCEPT !.op = "init", !.line = ln, !.open = TRUE,
                                  !.casts = ray.casts]
    /\ UNCHANGED <<chart, tick, last, accepted, sweeps,
                   chunk_manager, terrain_seed, cm>>

\* the state after a call of raycaster_bresham_step that returned s
BreshamStepReturned(s) ==
    /\ raycaster' = s.rc
    /\ ray' = [ray EXCEPT
                 !.op = "step",
                 !.out = <<s.out_x, s.out_y>>,
                 !.ret = s.ret,
                 !.open = s.ret,
                 !.yielded = IF s.ret THEN Append(@, <<s.out_x, s.out_y>>) ELSE @]
    /\ UNCHANGED <<chart, tick, last, accepted, sweeps,
                   chunk_manager, terrain_seed, cm>>

\* one call of raycaster_bresham_step on a line that has been initialised
\* and has not ended
BreshamStep ==
    /\ ray.open
    /\ Len(ray.yielded) < MaxLineSteps
    /\ BreshamStepReturned(raycaster_bresham_step(raycaster))

\* the state after a call of raycaster_cast_ray that returned r
CastRayReturned(start, direction, max_distance, world, r) ==
    /\ raycaster' = r.rc
    /\ ray' = [NoRay EXCEPT
                 !.op = "cast_ray", !.start = start, !.direction = direction,
                 !.max_distance = max_distance, !.world = world,
                 !.result = r.result, !.ret = r.ret, !.calls = r.calls,
                 !.casts = ray.casts + 1]
    /\ UNCHANGED <<chart, tick, last, accepted, sweeps,
                   chunk_manager, terrain_seed, cm>>

CastRay ==
    /\ ray.casts < MaxFrameCasts
    /\ \E start \in Origins, direction \in Directions,
          max_distance \in MaxDistances, world \in Worlds :
          CastRayReturned(start, direction, max_distance, world,
              raycaster_cast_ray(raycaster, start[1], start[2], direction,
                                 max_distance, world))

\* the state after a call of raycaster_cast_pattern that returned r
CastPatternReturned(pattern, start, world, r) ==
    /\ raycaster' = r.rc
    /\ ray' = [NoRay EXCEPT
                 !.op = "cast_pattern", !.start = start, !.pattern = pattern,
                 !.world = world, !.results = r.results, !.hits = r.hits,
                 !.casts = ray.casts + 1]
    /\ UNCHANGED <<chart, tick, last, accepted, sweeps,
                   chunk_manager, terrain_seed, cm>>

CastPattern ==
    /\ ray.casts < MaxFrameCasts
    /\ \E pattern \in PatternInputs, start \in Origins, world \in Worlds :
          CastPatternReturned(pattern, start, world,
              raycaster_cast_pattern(raycaster, pattern, start[1], start[2],
                                     world))

ResetFrameStats ==
    /\ raycaster' = raycaster_reset_frame_stats(raycaster)
    /\ ray' = [NoRay EXCEPT !.op = "reset"]
    /\ UNCHANGED <<chart, tick, last, accepted, sweeps,
                   chunk_manager, terrain_seed, cm>>

NextRay ==
    \/ SetQualityLevel
    \/ BreshamInit
    \/ BreshamStep
    \/ CastRay
    \/ CastPattern
    \/ ResetFrameStats

SpecRay == InitRay /\ [][NextRay]_vars

---------------------------------------------------------------------------
(* The state machine of the raycaster's quality control.  tick is the      *)
(* value of furi_get_tick(), wrapping at TickWrap.  Once ray.abundant is   *)
(* set the only calls left are performance checks that measure a frame     *)
(* time of 0 and lie more than PERFORMANCE_CHECK_INTERVAL_MS apart.        *)

\* the frame times a performance check measures, in ms
FrameTimes == {0, 1, 3, 7, 11}

\* the time that passes between two calls, in units of TickUnit
TickSteps == {1, 3}

\* the time between two checks while frame time is abundant, in units of
\* TickUnit
AbundantSteps == {3, 4}

RayTick ==
    /\ ~ray.abundant
    /\ \E units \in TickSteps : tick' = (tick + units * TickUnit) % TickWrap
    /\ UNCHANGED <<chart, last, accepted, sweeps, raycaster, ray,
                   chunk_manager, terrain_seed, cm>>

\* a call of raycaster_update_performance_stats at the time now for a frame
\* that took frame_time
UpdatePerformanceStatsAt(now, frame_time) ==
    /\ tick' = now
    /\ raycaster' = raycaster_update_performance_stats(
                        raycaster, (now - frame_time) % TickWrap, now)
    /\ ray' = [NoRay EXCEPT !.op = "update", !.frame_time = frame_time,
                            !.before = raycaster.current_quality_level,
                            !.casts = ray.casts, !.abundant = ray.abundant]
    /\ UNCHANGED <<chart, last, accepted, sweeps,
                   chunk_manager, terrain_seed, cm>>

UpdatePerformanceStats ==
    /\ ~ray.abundant
    /\ \E frame_time \in FrameTimes : UpdatePerformanceStatsAt(tick, frame_time)

GetAdaptivePattern ==
    /\ ~ray.abundant
    /\ \E prefer_performance \in BOOLEAN :
          ray' = [NoRay EXCEPT
                    !.op = "adaptive", !.prefer = prefer_performance,
                    !.pattern = raycaster_get_adaptive_pattern(
                                    raycaster, prefer_performance),
                    !.casts = ray.casts]
    /\ UNCHANGED <<chart, tick, last, accepted, sweeps, raycaster,
                   chunk_manager, terrain_seed, cm>>

\* from now on frame time stays abundant
BeginAbundance ==
    /\ ~ray.abundant
    /\ ray' = [ray EXCEPT !.abundant = TRUE]
    /\ UNCHANGED <<chart, tick, last, accepted, sweeps, raycaster,
                   chunk_manager, terrain_seed, cm>>

\* the next performance check while frame time is abundant
AbundantCheck ==
    /\ ray.abundant
    /\ \E units \in AbundantSteps :
          UpdatePerformanceStatsAt((tick + units * TickUnit) % TickWrap, 0)

NextQuality ==
    \/ SetQualityLevel
    \/ RayTick
    \/ UpdatePerformanceStats
    \/ GetAdaptivePattern
    \/ BeginAbundance
    \/ AbundantCheck

\* the checks keep occurring while frame time is abundant
SpecQuality == InitRay /\ [][NextQuality]_vars /\ WF_vars(AbundantCheck)

---------------------------------------------------------------------------
(* The state machine of terrain generation.  terrain_seed is the static    *)
(* generator state of src/terrain.c, cm the last call and what it          *)
(* returned; cm.previous is the terrain_manager_alloc call before it.      *)

\* the seeds terrains are generated with: 12345, 12345 + 2^24 and 4
Seeds == {<<0, 12345>>, <<256, 12345>>, <<0, 4>>}

\* the elevation thresholds terrains are generated with
Elevations == {LOAD_ELEVATION, 128}

\* a call of terrain_manager_alloc that returned r
TerrainAllocated(seed, elevation, mem, r) ==
    /\ terrain_seed' = r.terrain_seed
    /\ cm' = [NoCm EXCEPT
                !.op = "terrain_alloc", !.seed = seed,
                !.elevation = elevation, !.mem = mem, !.terrain = r.terrain,
                !.previous = [op |-> cm.op, seed |-> cm.seed,
                              elevation |-> cm.elevation, mem |-> cm.mem,
                              terrain |-> cm.terrain]]

TerrainManagerAlloc ==
    /\ \E seed \in Seeds : \E elevation \in Elevations : \E mem \in Allocations :
          TerrainAllocated(seed, elevation, mem,
              terrain_manager_alloc(terrain_seed, seed, elevation, mem))
    /\ UNCHANGED <<chart, tick, last, accepted, sweeps, raycaster, ray,
                   chunk_manager>>

NextTerrain == TerrainManagerAlloc

SpecTerrain == InitRay /\ [][NextTerrain]_vars

---------------------------------------------------------------------------
(* The state machine of the chunk manager.  chunk_manager is the           *)
(* ChunkManager, cm the last call and what it returned.  The clock stands  *)
(* still.  A query leaves the manager as it is, so the calls that change   *)
(* the manager are taken from the states no query has been made in.        *)

\* the observer positions: tiles (0,0), (1,0), (1,1) and (508400,0);
\* 16777232 is a float
Positions == {<<0, 0>>, <<40, 0>>, <<40, 40>>, <<16777232, 0>>}

\* the queried world coordinates
QueryPoints ==
    {<<1, 1>>, <<34, 1>>, <<1, 34>>, <<34, 34>>, <<32, 32>>, <<-1, -1>>,
     <<67, 34>>, <<-34, 1>>, <<16777233, 1>>, <<16777266, 1>>}

\* the world coordinates converted
CoordPoints == {<<0, 0>>, <<32, 32>>, <<33, 33>>, <<-1, -1>>, <<-33, -34>>}

AllOk == [k \in 1..MAX_ACTIVE_CHUNKS |-> "ok"]

\* the malloc outcomes of an update: all succeed, the terrain of grid slot
\* 1 is not allocated, or the despeckle copy of grid slot 3 is not
FailPlans ==
    {AllOk, [AllOk EXCEPT ![2] = "no_terrain"],
     [AllOk EXCEPT ![4] = "no_temp_map"]}

\* the tile of grid slot index of the window with the centre center
WindowCoord(center, index) ==
    [chunk_x |-> center.chunk_x + (index % 2),
     chunk_y |-> center.chunk_y + (index \div 2)]

\* the grid slots a chunk_manager_update call at position loads: none if
\* the centre stays, else those whose tile the window did not hold
LoadedSlots(position) ==
    IF chunk_coord_equals(world_to_chunk_coord(position[1], position[2]),
                          chunk_manager.center_chunk)
    THEN {}
    ELSE {index \in 0..(MAX_ACTIVE_CHUNKS - 1) :
             Holding(chunk_manager, chunk_manager.active_chunks,
                     WindowCoord(world_to_chunk_coord(position[1], position[2]),
                                 index)) = {}}

\* a call of chunk_manager_update that returned r
Updated(position, mems, r) ==
    /\ chunk_manager' = r.manager
    /\ terrain_seed' = r.terrain_seed
    /\ cm' = [NoCm EXCEPT
                !.op = "update", !.position = position, !.mems = mems,
                !.loaded = LoadedSlots(position),
                !.centre = chunk_manager.center_chunk,
                !.updates = cm.updates + 1]

Update ==
    /\ cm.op \in {"alloc", "update", "reset"}
    /\ cm.updates < MaxUpdates
    /\ \E position \in Positions : \E mems \in FailPlans :
          Updated(position, mems,
              chunk_manager_update(chunk_manager, terrain_seed, position[1],
                                   position[2], mems, tick))
    /\ UNCHANGED <<chart, tick, last, accepted, sweeps, raycaster, ray>>

CheckCollision ==
    /\ \E world \in QueryPoints :
          cm' = [NoCm EXCEPT
                   !.op = "check", !.world = world, !.updates = cm.updates,
                   !.chunk = chunk_manager_get_chunk_at(chunk_manager, world[1],
                                                        world[2]),
                   !.local = LocalCoord(world[1], world[2]),
                   !.ret = chunk_manager_check_collision(chunk_manager, world[1],
                                                         world[2])]
    /\ UNCHANGED <<chart, tick, last, accepted, sweeps, raycaster, ray,
                   chunk_manager, terrain_seed>>

WorldToChunkCoord ==
    /\ \E world \in CoordPoints :
          cm' = [NoCm EXCEPT
                   !.op = "coord", !.world = world, !.updates = cm.updates,
                   !.coord = world_to_chunk_coord(world[1], world[2])]
    /\ UNCHANGED <<chart, tick, last, accepted, sweeps, raycaster, ray,
                   chunk_manager, terrain_seed>>

ChunkResetFrameStats ==
    /\ cm.op = "update"
    /\ chunk_manager' = chunk_manager_reset_frame_stats(chunk_manager)
    /\ cm' = [NoCm EXCEPT !.op = "reset", !.updates = cm.updates]
    /\ UNCHANGED <<chart, tick, last, accepted, sweeps, raycaster, ray,
                   terrain_seed>>

NextChunk ==
    \/ Update
    \/ CheckCollision
    \/ WorldToChunkCoord
    \/ ChunkResetFrameStats

SpecChunk == InitRay /\ [][NextChunk]_vars

\* the observer goes back and forth between the windows around the tiles
\* (2,1) and (1,1), so that the tiles (3,1) and (3,2) are evicted and loaded
\* again; the copy for the despeckle filter of the tile of grid slot 1 may
\* fail to allocate
ReloadPositions == {<<70, 40>>, <<40, 40>>, <<70, 0>>}

ReloadPlans ==
    {AllOk, [AllOk EXCEPT ![2] = "no_temp_map"], [AllOk EXCEPT ![2] = "no_terrain"]}

\* the (tile, collision map) pairs of the tiles the window holds
WindowMasks(manager) ==
    {<<manager.pool.chunks[manager.active_chunks[index]].coord,
       manager.pool.chunks[manager.active_chunks[index]].terrain.collision_map>> :
        index \in {i \in 0..(MAX_ACTIVE_CHUNKS - 1) :
                      /\ manager.active_chunks[i] # NULL
                      /\ ~manager.pool.chunks[manager.active_chunks[i]].terrain.is_null}}

\* a call of chunk_manager_update that returned r
Reloaded(position, mems, r) ==
    /\ chunk_manager' = r.manager
    /\ terrain_seed' = r.terrain_seed
    /\ cm' = [NoCm EXCEPT
                !.op = "update", !.position = position, !.mems = mems,
                !.loaded = LoadedSlots(position),
                !.centre = chunk_manager.center_chunk,
                !.updates = cm.updates + 1,
                !.masks = cm.masks \cup WindowMasks(chunk_manager)]

Reload ==
    /\ cm.updates < MaxReloads
    /\ \E position \in ReloadPositions : \E mems \in ReloadPlans :
          Reloaded(position, mems,
                   chunk_manager_update(chunk_manager, terrain_seed,
                                        position[1], position[2], mems, tick))
    /\ UNCHANGED <<chart, tick, last, accepted, sweeps, raycaster, ray>>

NextReload == Reload

SpecReload == InitRay /\ [][NextReload]_vars

---------------------------------------------------------------------------
(* The state machine of fading points: the clock advances by half a fade   *)
(* stage while the sonar reports and the chart ages its points.            *)

\* the time between two calls while points fade
FadeTickStep == SONAR_FADE_DURATION_MS \div 2

FadeTick ==
    /\ tick < MaxFadeTicks * FadeTickStep
    /\ tick' = tick + FadeTickStep
    /\ last' = [NoCall EXCEPT !.op = "tick"]
    /\ UNCHANGED <<chart, accepted, sweeps, raycaster, ray,
                   chunk_manager, terrain_seed, cm>>

\* the reports the sonar makes while points fade
FadeReports == {<<<<-6, -6>>, FALSE>>, <<<<-7, -6>>, FALSE>>}

AddFadingPoint == AddPointFrom(FadeReports)

NextFade == AddFadingPoint \/ FadeTick \/ UpdateFade

SpecFade == InitRay /\ [][NextFade]_vars

---------------------------------------------------------------------------
(* What the properties read off a chart.                                   *)

Node(n) == chart.node_pool.nodes[n]

Point(p) == chart.point_pool.points[p]

RootBounds == Node(chart.root).bounds

RECURSIVE Subtree(_, _)
\* the nodes of the tree below and including node
Subtree(ch, node) ==
    IF node = NULL THEN {}
    ELSE LET n == ch.node_pool.nodes[node]
         IN  {node} \cup
             (IF n.is_leaf THEN {}
              ELSE UNION {Subtree(ch, n.children[j]) : j \in 1..4})

TreeNodes == Subtree(chart, chart.root)

FreeNodeCount(ch) ==
    Cardinality({i \in 0..(ch.node_pool.pool_size - 1) : ~ch.node_pool.node_in_use[i]})

InUsePointCount(ch) ==
    Cardinality({i \in 0..(ch.point_pool.pool_size - 1) : ch.point_pool.point_in_use[i]})

InUseNodeCount(ch) == ch.node_pool.pool_size - FreeNodeCount(ch)

\* a buffer no query can fill
BigBuffer == chart.point_pool.pool_size + 1

\* the exact-coordinate query of a coordinate pair
Found(ch, c) == sonar_chart_query_point(ch, c[1], c[2]).found

\* the call sonar_chart_add_point(c, water) made now
AddWater(c) == sonar_chart_add_point(chart, c[1], c[2], FALSE, tick)

\* internal nodes that keep points of their own
RetainingNodes == {n \in TreeNodes : ~Node(n).is_leaf /\ point_count(Node(n)) > 0}

\* the point slots held by the lists of a set of nodes
SlotsOf(ch, nodes) ==
    UNION {{ch.node_pool.nodes[n].points[i] :
                i \in 1..point_count(ch.node_pool.nodes[n])} : n \in nodes}

\* the point slots stored in the tree
StoredSlots(ch) == SlotsOf(ch, Subtree(ch, ch.root))

\* the number of entries of all the tree's lists
StoredCount(ch) ==
    LET nodes == Subtree(ch, ch.root)
        RECURSIVE Sum(_)
        Sum(S) == IF S = {} THEN 0
                  ELSE LET n == CHOOSE m \in S : TRUE
                       IN  point_count(ch.node_pool.nodes[n]) + Sum(S \ {n})
    IN  Sum(nodes)

\* the point the exact-coordinate query returns for a stored coordinate
PointAt(ch, c) ==
    ch.point_pool.points[sonar_chart_query_point(ch, c[1], c[2]).point]

\* a coordinate is stored and classified as terrain
StoredTerrain(ch, c) == Found(ch, c) /\ PointAt(ch, c).is_terrain

\* the age at which a point has passed the last fade stage
FadeHorizon == SONAR_FADE_STAGES * SONAR_FADE_DURATION_MS

---------------------------------------------------------------------------
(* C1. No point loss: every coordinate whose insert reported success since  *)
(* the last age sweep is found by an exact-coordinate query, and as long as *)
(* no sweep has run a query over the whole world with a large enough buffer *)
(* returns exactly as many points as there are such coordinates, whether or *)
(* not nodes have subdivided.                                               *)
C1_NoPointLoss ==
    /\ \A c \in accepted : Found(chart, c)
    /\ sweeps = 0 =>
          Len(sonar_chart_query_area(chart, RootBounds, BigBuffer))
              = Cardinality(accepted)

\* five accepted points, two levels of subdivision, points kept on an
\* internal node
C1_Witness ==
    /\ Cardinality(accepted) >= 5
    /\ \E n \in TreeNodes : Node(n).depth = SONAR_QUADTREE_MAX_DEPTH
    /\ RetainingNodes # {}

---------------------------------------------------------------------------
(* C2. Arena exhaustion is the only insertion failure: whenever the point   *)
(* pool has a free slot and the node pool has at least four free nodes, an  *)
(* insert at a coordinate that is not stored yet succeeds.                  *)
C2_OnlyExhaustionFails ==
    \A c \in TreeCoords :
        (/\ ~Found(chart, c)
         /\ chart.point_pool.active_count < chart.point_pool.pool_size
         /\ FreeNodeCount(chart) >= 4)
        => AddWater(c).ret

---------------------------------------------------------------------------
(* C3. Forced retention: when the leaf an insert arrives at is full and     *)
(* cannot be subdivided because the node arena is exhausted, the point is   *)
(* kept all the same: the insert reports success and the point is found by  *)
(* later queries.                                                           *)
ExhaustedLeafFor(c) ==
    \E n \in TreeNodes :
        /\ Node(n).is_leaf
        /\ sonar_bounds_contains_point(Node(n).bounds, c[1], c[2])
        /\ point_count(Node(n)) >= SONAR_QUADTREE_MAX_POINTS
        /\ Node(n).depth < SONAR_QUADTREE_MAX_DEPTH
        /\ FreeNodeCount(chart) < 4

C3_ForcedRetention ==
    \A c \in TreeCoords :
        (/\ ~Found(chart, c)
         /\ chart.point_pool.active_count < chart.point_pool.pool_size
         /\ ExhaustedLeafFor(c))
        => (AddWater(c).ret /\ Found(AddWater(c).ch, c))

---------------------------------------------------------------------------
(* C4. Depth cap: inserting a further distinct coordinate that lies inside  *)
(* a leaf of depth SONAR_QUADTREE_MAX_DEPTH which already holds             *)
(* SONAR_QUADTREE_MAX_POINTS points succeeds, and the point is found        *)
(* afterwards.                                                              *)
FullCapLeafFor(c) ==
    \E n \in TreeNodes :
        /\ Node(n).is_leaf
        /\ sonar_bounds_contains_point(Node(n).bounds, c[1], c[2])
        /\ point_count(Node(n)) >= SONAR_QUADTREE_MAX_POINTS
        /\ Node(n).depth = SONAR_QUADTREE_MAX_DEPTH

C4_DepthCapAccepts ==
    \A c \in TreeCoords :
        (/\ ~Found(chart, c)
         /\ chart.point_pool.active_count < chart.point_pool.pool_size
         /\ FullCapLeafFor(c))
        => (AddWater(c).ret /\ Found(AddWater(c).ch, c))

---------------------------------------------------------------------------
(* C5. Sticky terrain: an insert at a coordinate that is already stored     *)
(* succeeds and leaves the point classified as terrain if it was terrain    *)
(* before or if the insert reports terrain, and as water otherwise; so      *)
(* water after terrain stays terrain and terrain after water becomes        *)
(* terrain.  And no step of the program turns a terrain point that is       *)
(* still held after the step back into water.                               *)
StickyInsert(c, is_terrain) ==
    LET r == sonar_chart_add_point(chart, c[1], c[2], is_terrain, tick)
    IN  /\ r.ret
        /\ Found(r.ch, c)
        /\ PointAt(r.ch, c).is_terrain = (PointAt(chart, c).is_terrain \/ is_terrain)

\* a point slot that holds a terrain point before a step and is still in use
\* after it holds a terrain point at the same coordinate
TerrainKept ==
    \A p \in 0..(chart.point_pool.pool_size - 1) :
        (/\ chart.point_pool.point_in_use[p]
         /\ chart'.point_pool.point_in_use[p]
         /\ Point(p).is_terrain)
        => /\ chart'.point_pool.points[p].is_terrain
           /\ chart'.point_pool.points[p].world_x = Point(p).world_x
           /\ chart'.point_pool.points[p].world_y = Point(p).world_y

C5_StickyTerrain ==
    /\ [](\A c \in Coords : \A is_terrain \in BOOLEAN :
              Found(chart, c) => StickyInsert(c, is_terrain))
    /\ [][TerrainKept]_vars

\* the last call was a water report, in a later tick, at the one coordinate
\* where terrain was reported before, and the point there is terrain
C5_Witness ==
    /\ last.op = "add" /\ last.existed /\ ~last.is_terrain
    /\ tick > 0
    /\ \A c \in TerrainCoords :
          /\ StoredTerrain(chart, c)
          /\ PointAt(chart, c).discovery_time = tick
    /\ \A c \in Coords \ TerrainCoords :
          Found(chart, c) => PointAt(chart, c).discovery_time < tick

---------------------------------------------------------------------------
(* C6. Duplicate update: an insert at a coordinate that already holds a     *)
(* stored point returns true, sets that point's discovery time to the time  *)
(* of the call, allocates no point and leaves the number of stored points   *)
(* unchanged; and in every state no two stored points share their (x, y),   *)
(* and no point is held by two places of the tree.                          *)
Rediscovery(c, is_terrain) ==
    LET r == sonar_chart_add_point(chart, c[1], c[2], is_terrain, tick)
    IN  /\ r.ret
        /\ PointAt(r.ch, c).discovery_time = tick
        /\ sonar_chart_query_point(r.ch, c[1], c[2]).point
              = sonar_chart_query_point(chart, c[1], c[2]).point
        /\ r.ch.point_pool.point_in_use = chart.point_pool.point_in_use
        /\ r.ch.point_pool.active_count = chart.point_pool.active_count
        /\ StoredSlots(r.ch) = StoredSlots(chart)
        /\ StoredCount(r.ch) = StoredCount(chart)

NoSharedCoordinate ==
    /\ \A p, q \in StoredSlots(chart) :
          (Point(p).world_x = Point(q).world_x /\ Point(p).world_y = Point(q).world_y)
              => p = q
    /\ StoredCount(chart) = Cardinality(StoredSlots(chart))

C6_DuplicateUpdate ==
    /\ NoSharedCoordinate
    /\ \A c \in Coords : \A is_terrain \in BOOLEAN :
          Found(chart, c) => Rediscovery(c, is_terrain)

\* a coordinate was rediscovered after an age sweep, in a tree that has
\* subdivided and keeps a point on an internal node
C6_Witness ==
    /\ last.op = "add" /\ last.existed /\ last.ret
    /\ sweeps > 0
    /\ RetainingNodes # {}
    /\ Cardinality(StoredSlots(chart)) >= SONAR_QUADTREE_MAX_POINTS + 1

---------------------------------------------------------------------------
(* C7. Query completeness: for every query window, sonar_chart_query_area   *)
(* with a buffer no query can fill returns no point twice, and the points   *)
(* it returns are exactly the stored points whose coordinate lies in the    *)
(* window, the points kept on internal nodes included.                      *)

\* the query windows: the whole world, a window around part of the cluster,
\* single columns and rows, the midpoint of the north-west quadrant alone,
\* and a window that holds no reported coordinate
Windows ==
    {RootBounds,
     sonar_bounds_create(-7, -7, -6, -6),
     sonar_bounds_create(-6, -6, -4, -4),
     sonar_bounds_create(-5, -8, -5, 7),
     sonar_bounds_create(-8, -6, 7, -6),
     sonar_bounds_create(-4, -4, -4, -4),
     sonar_bounds_create(-3, -3, 7, 7)}

InWindow(w, p) == sonar_bounds_contains_point(w, Point(p).world_x, Point(p).world_y)

C7_QueryCompleteness ==
    \A w \in Windows :
        LET out == sonar_chart_query_area(chart, w, BigBuffer)
        IN  /\ \A i, k \in 1..Len(out) : out[i] = out[k] => i = k
            /\ {out[i] : i \in 1..Len(out)}
                  = {p \in StoredSlots(chart) : InWindow(w, p)}

\* points are kept on internal nodes, and some window holds such a point
\* together with a point of a leaf while another stored point lies outside
C7_Witness ==
    /\ RetainingNodes # {}
    /\ \E w \in Windows :
          /\ \E p \in SlotsOf(chart, RetainingNodes) : InWindow(w, p)
          /\ \E p \in StoredSlots(chart) \ SlotsOf(chart, RetainingNodes) :
                InWindow(w, p)
          /\ \E p \in StoredSlots(chart) : ~InWindow(w, p)

---------------------------------------------------------------------------
(* C8. Exact containment: the bounds of the four children of every          *)
(* subdivided node partition the node's bounds: each coordinate inside the  *)
(* node's bounds lies inside the bounds of exactly one child.               *)
ChildrenHolding(n, x, y) ==
    {j \in 1..4 :
        sonar_bounds_contains_point(Node(Node(n).children[j]).bounds, x, y)}

C8_ChildrenPartition ==
    \A n \in TreeNodes :
        ~Node(n).is_leaf =>
            \A x \in Node(n).bounds.min_x .. Node(n).bounds.max_x :
            \A y \in Node(n).bounds.min_y .. Node(n).bounds.max_y :
                Cardinality(ChildrenHolding(n, x, y)) = 1

---------------------------------------------------------------------------
(* C9. Aging removes expired points: right after a call of                  *)
(* sonar_chart_update_fade that performed a sweep, no point stored anywhere *)
(* in the tree has an age of FadeHorizon or more, no query returns such a   *)
(* point, and every point slot still in use is stored in the tree.          *)
C9_AgingRemovesExpired ==
    (last.op = "fade" /\ last.ret) =>
        /\ \A p \in StoredSlots(chart) :
              tick - Point(p).discovery_time < FadeHorizon
        /\ LET out == sonar_chart_query_area(chart, RootBounds, BigBuffer)
           IN  \A i \in 1..Len(out) :
                   tick - Point(out[i]).discovery_time < FadeHorizon
        /\ \A p \in 0..(chart.point_pool.pool_size - 1) :
              chart.point_pool.point_in_use[p] => p \in StoredSlots(chart)

---------------------------------------------------------------------------
(* C10. Arena bound: in both pools the number of slots marked in use is at  *)
(* most the pool size, point_pool.active_count equals the number of point   *)
(* slots marked in use, and an allocation from a pool whose slots are all   *)
(* in use returns NULL and leaves the pool as it was.                       *)
C10_ArenaBound ==
    /\ InUseNodeCount(chart) <= chart.node_pool.pool_size
    /\ InUsePointCount(chart) <= chart.point_pool.pool_size
    /\ chart.point_pool.active_count = InUsePointCount(chart)
    /\ FreeNodeCount(chart) = 0 =>
          sonar_node_pool_alloc(chart.node_pool)
              = [pool |-> chart.node_pool, node |-> NULL]
    /\ InUsePointCount(chart) = chart.point_pool.pool_size =>
          sonar_point_pool_alloc(chart.point_pool)
              = [pool |-> chart.point_pool, point |-> NULL]

\* both pools are full after a sweep has released points and an insert has
\* allocated again
C10_Witness ==
    /\ sweeps > 0
    /\ last.op = "add" /\ last.ret /\ ~last.existed
    /\ FreeNodeCount(chart) = 0
    /\ InUsePointCount(chart) = chart.point_pool.pool_size

---------------------------------------------------------------------------
(* C11. Capacity plus one: once SONAR_QUADTREE_MAX_POINTS + 1 points at      *)
(* distinct coordinates of one small region have been inserted into an      *)
(* empty store, the store has subdivided exactly once, that is the root and *)
(* four children are the only nodes in use, and a query over the whole      *)
(* world returns all SONAR_QUADTREE_MAX_POINTS + 1 points.                  *)
C11_CapacityPlusOne ==
    Cardinality(accepted) = SONAR_QUADTREE_MAX_POINTS + 1 =>
        /\ InUseNodeCount(chart) = 1 + 4
        /\ Cardinality(TreeNodes) = 1 + 4
        /\ Len(sonar_chart_query_area(chart, RootBounds, BigBuffer))
              = SONAR_QUADTREE_MAX_POINTS + 1

---------------------------------------------------------------------------
(* What the properties read off the raycaster.                             *)

Max(a, b) == IF a >= b THEN a ELSE b

\* the number of whole steps from the origin of the last cast to the
\* position it reported
StepsFromOrigin ==
    Max(CAbs(ray.result.hit_x - ray.start[1]), CAbs(ray.result.hit_y - ray.start[2]))

---------------------------------------------------------------------------
(* C12. Hit distance: a ray cast from (64, 32) along (+1, 0) with max       *)
(* distance 4 into the world with terrain in x in 65..67, y in 32..34       *)
(* reports a hit at x = 65 with distance 1; and the distance of every hit   *)
(* is the number of whole steps from the origin to the hit position.        *)
C12_HitDistance ==
    ray.op = "cast_ray" =>
        /\ (/\ ray.start = <<64, 32>>
            /\ ray.direction = Direction(FIXED_POINT_SCALE, 0)
            /\ ray.max_distance = 4
            /\ ray.world = BoxWorld)
           => (/\ ray.ret /\ ray.result.hit_terrain
               /\ ray.result.hit_x = 65
               /\ ray.result.distance = 1)
        /\ ray.result.hit_terrain => ray.result.distance = StepsFromOrigin

---------------------------------------------------------------------------
(* C13. Skipped rays: after raycaster_cast_pattern at a quality level       *)
(* q > 0, every result at an index i with i mod (q + 1) # 0 is complete,    *)
(* not a hit, and at the pattern's max radius.                              *)
C13_SkippedRays ==
    (ray.op = "cast_pattern" /\ raycaster.current_quality_level > 0) =>
        \A i \in 1..Len(ray.results) :
            (i - 1) % (raycaster.current_quality_level + 1) # 0 =>
                /\ ray.results[i].ray_complete
                /\ ~ray.results[i].hit_terrain
                /\ ray.results[i].distance = ray.pattern.max_radius

---------------------------------------------------------------------------
(* C14. One result per ray: raycaster_cast_pattern writes one result per    *)
(* direction of the pattern, results[i] being what a ray cast from the same *)
(* origin along directions[i] with the pattern's max radius reports; every  *)
(* result is complete at every quality level, and the value returned is the *)
(* number of results that hit terrain.                                      *)
C14_OneResultPerRay ==
    ray.op = "cast_pattern" =>
        /\ Len(ray.results) = ray.pattern.direction_count
        /\ \A i \in 1..ray.pattern.direction_count :
              /\ ray.results[i].ray_complete
              /\ ray.results[i] =
                    raycaster_cast_ray(raycaster_alloc, ray.start[1], ray.start[2],
                                       ray.pattern.directions[i],
                                       ray.pattern.max_radius, ray.world).result
        /\ ray.hits = Cardinality({i \in 1..Len(ray.results) :
                                     ray.results[i].hit_terrain})

\* a pattern cast at reduced quality in which some rays hit and some do not
C14_Witness ==
    /\ ray.op = "cast_pattern"
    /\ raycaster.current_quality_level > 1
    /\ ray.hits > 0
    /\ ray.hits < ray.pattern.direction_count

---------------------------------------------------------------------------
(* C15. Zero-length direction: a ray cast along (0, 0) makes exactly one    *)
(* call of raycaster_bresham_step and reports a complete result that is no  *)
(* hit and lies at the origin, whatever the max distance and the world.     *)
C15_ZeroDirection ==
    (ray.op = "cast_ray" /\ ray.direction = Direction(0, 0)) =>
        /\ ray.calls = 1
        /\ ~ray.ret
        /\ ray.result.ray_complete
        /\ ~ray.result.hit_terrain
        /\ ray.result.hit_x = ray.start[1]
        /\ ray.result.hit_y = ray.start[2]

\* a zero-length ray was cast with a positive max distance into a world that
\* is terrain everywhere
C15_Witness ==
    /\ ray.op = "cast_ray" /\ ray.direction = Direction(0, 0)
    /\ ray.max_distance > 1
    /\ ray.world = Everywhere

---------------------------------------------------------------------------
(* C16. Line stepping covers both endpoints: once raycaster_bresham_step    *)
(* has returned false on a horizontal or vertical line of length N, it has  *)
(* returned true exactly N + 1 times and yielded the positions from the     *)
(* start to the end of the line inclusive, in order.                        *)
LineLength == Max(CAbs(ray.line[3] - ray.line[1]), CAbs(ray.line[4] - ray.line[2]))

AxisLine == ray.line[1] = ray.line[3] \/ ray.line[2] = ray.line[4]

\* the k-th position of an axis-parallel line, counted from 0
LinePosition(k) ==
    <<ray.line[1] + k * (IF ray.line[3] > ray.line[1] THEN 1
                         ELSE IF ray.line[3] < ray.line[1] THEN -1 ELSE 0),
      ray.line[2] + k * (IF ray.line[4] > ray.line[2] THEN 1
                         ELSE IF ray.line[4] < ray.line[2] THEN -1 ELSE 0)>>

C16_LineCoversEndpoints ==
    (ray.op = "step" /\ ~ray.open /\ AxisLine) =>
        /\ Len(ray.yielded) = LineLength + 1
        /\ \A k \in 1..Len(ray.yielded) : ray.yielded[k] = LinePosition(k - 1)

---------------------------------------------------------------------------
(* C17. Quality recovers: from every state reached through raycaster_alloc, *)
(* raycaster_set_quality_level and raycaster_update_performance_stats, if   *)
(* from some moment on every performance check measures a frame time of 0   *)
(* and the checks keep occurring more than                                  *)
(* PERFORMANCE_CHECK_INTERVAL_MS apart, current_quality_level eventually    *)
(* returns to 0.                                                            *)
C17_QualityRecovers == ray.abundant ~> (raycaster.current_quality_level = 0)

---------------------------------------------------------------------------
(* C18. Quality hysteresis: raycaster_update_performance_stats changes      *)
(* current_quality_level only when more than                                *)
(* PERFORMANCE_CHECK_INTERVAL_MS have passed since the last performance     *)
(* check, then by one level at most, and the check that changes the level   *)
(* restarts the interval, so the level does not degrade and improve within  *)
(* one interval; the level never leaves 0..MAX_QUALITY_LEVEL.               *)

\* a step that is a call of raycaster_update_performance_stats: the time of
\* the call is tick'
UpdateStep == ray'.op = "update"

LevelChange == raycaster'.current_quality_level - raycaster.current_quality_level

Hysteresis ==
    UpdateStep =>
        /\ LevelChange \in {-1, 0, 1}
        /\ LevelChange # 0 =>
              /\ ClockDiff(tick', raycaster.last_performance_check)
                    > PERFORMANCE_CHECK_INTERVAL_MS
              /\ raycaster'.last_performance_check = tick'
        /\ ClockDiff(tick', raycaster.last_performance_check)
              <= PERFORMANCE_CHECK_INTERVAL_MS => raycaster' = raycaster

C18_QualityHysteresis ==
    /\ [](raycaster.current_quality_level \in 0..MAX_QUALITY_LEVEL)
    /\ [][Hysteresis]_vars

\* a check has just degraded the level to MAX_QUALITY_LEVEL
C18_Witness ==
    /\ ray.op = "update"
    /\ ray.before = MAX_QUALITY_LEVEL - 1
    /\ raycaster.current_quality_level = MAX_QUALITY_LEVEL
    /\ raycaster.last_performance_check = tick

---------------------------------------------------------------------------
(* C19. Initial quality: a freshly allocated raycaster is at quality level  *)
(* 0, and raycaster_get_adaptive_pattern(raycaster, false) on it returns    *)
(* the full pattern with FULL_RAY_COUNT rays.                               *)
C19_InitialQuality ==
    (ray.op = "adaptive" /\ ~ray.prefer /\ raycaster = raycaster_alloc) =>
        /\ raycaster.current_quality_level = 0
        /\ ray.pattern = raycaster.sonar_pattern_full
        /\ ray.pattern.direction_count = FULL_RAY_COUNT

---------------------------------------------------------------------------
(* C20. Adaptive pattern selection: raycaster_get_adaptive_pattern returns  *)
(* the full pattern (FULL_RAY_COUNT rays) at level 0 without performance    *)
(* preference, the forward pattern (FORWARD_RAY_COUNT rays) at level 1 or   *)
(* at level 0 with performance preference, and the sparse pattern           *)
(* (SPARSE_RAY_COUNT rays) at levels 2 and 3; the ray count of the selected *)
(* pattern never increases as the level rises.                              *)

\* the pattern the raycaster would select at a level
PatternAt(level, prefer_performance) ==
    raycaster_get_adaptive_pattern(
        [raycaster EXCEPT !.current_quality_level = level], prefer_performance)

SelectedAsSpecified ==
    ray.op = "adaptive" =>
        /\ (raycaster.current_quality_level = 0 /\ ~ray.prefer) =>
              /\ ray.pattern = raycaster.sonar_pattern_full
              /\ ray.pattern.direction_count = FULL_RAY_COUNT
        /\ (raycaster.current_quality_level = 1
              \/ (raycaster.current_quality_level = 0 /\ ray.prefer)) =>
              /\ ray.pattern = raycaster.sonar_pattern_forward
              /\ ray.pattern.direction_count = FORWARD_RAY_COUNT
        /\ raycaster.current_quality_level \in {2, 3} =>
              /\ ray.pattern = raycaster.sonar_pattern_sparse
              /\ ray.pattern.direction_count = SPARSE_RAY_COUNT

C20_AdaptiveSelection ==
    /\ SelectedAsSpecified
    /\ \A prefer_performance \in BOOLEAN :
       \A q1, q2 \in 0..MAX_QUALITY_LEVEL :
          q1 <= q2 => PatternAt(q2, prefer_performance).direction_count
                         <= PatternAt(q1, prefer_performance).direction_count

\* the sparse pattern was selected at the level a performance check
\* degraded to, and the full pattern would be selected at level 0
C20_Witness ==
    /\ ray.op = "adaptive"
    /\ raycaster.current_quality_level = MAX_QUALITY_LEVEL
    /\ raycaster.last_performance_check > 0
    /\ ray.pattern.direction_count = SPARSE_RAY_COUNT
    /\ PatternAt(0, FALSE).direction_count = FULL_RAY_COUNT

---------------------------------------------------------------------------
(* C21. Active window is complete: after every chunk_manager_update call,   *)
(* including the first call after chunk_manager_alloc at any observer      *)
(* position, all four slots of the active window hold a tile, and slot     *)
(* dy * 2 + dx holds the tile (centre.x + dx, centre.y + dy), centre the   *)
(* tile that contains the observer.                                        *)

\* the tile that contains a world position
TileOf(world) ==
    [chunk_x |-> world[1] \div CHUNK_SIZE, chunk_y |-> world[2] \div CHUNK_SIZE]

\* the chunk of a grid slot of the active window
ActiveChunk(index) ==
    chunk_manager.pool.chunks[chunk_manager.active_chunks[index]]

C21_WindowComplete ==
    cm.op = "update" =>
        \A index \in 0..(MAX_ACTIVE_CHUNKS - 1) :
            /\ chunk_manager.active_chunks[index] # NULL
            /\ ActiveChunk(index).coord = WindowCoord(TileOf(cm.position), index)

---------------------------------------------------------------------------
(* C22. Window sliding: when chunk_manager_update moves the centre tile,    *)
(* every tile that lies in both the old and the new window is kept (same   *)
(* pool slot, terrain untouched, not regenerated), every newly needed tile *)
(* is generated (from the seed of its coordinate, unless its allocation    *)
(* fails), and every old tile outside the new window is unloaded and its   *)
(* pool slot returned to the pool; an update whose observer stays in the   *)
(* centre tile changes nothing but the recorded observer position.         *)

\* the grid slots of the window around centre that have the tile coord
GridSlotsOf(centre, coord) ==
    {index \in 0..(MAX_ACTIVE_CHUNKS - 1) : WindowCoord(centre, index) = coord}

\* the pool entry chunk of the window before the step is kept or unloaded
OldTileSlides(chunk, centre) ==
    IF GridSlotsOf(centre, chunk_manager.pool.chunks[chunk].coord) # {}
    THEN /\ \A index \in GridSlotsOf(centre, chunk_manager.pool.chunks[chunk].coord) :
               chunk_manager'.active_chunks[index] = chunk
         /\ chunk_manager'.pool.chunks[chunk] = chunk_manager.pool.chunks[chunk]
         /\ chunk_manager'.pool.chunk_in_use[chunk]
    ELSE /\ \A index \in 0..(MAX_ACTIVE_CHUNKS - 1) :
               chunk_manager'.active_chunks[index] # chunk
         /\ ~chunk_manager'.pool.chunk_in_use[chunk]
         /\ chunk_manager'.pool.chunks[chunk].terrain.is_null

\* the window before the step holds the tile coord
HeldBefore(coord) ==
    \E i \in 0..(MAX_ACTIVE_CHUNKS - 1) :
        /\ chunk_manager.active_chunks[i] # NULL
        /\ chunk_manager.pool.chunks[chunk_manager.active_chunks[i]].coord = coord

\* the grid slot index of the window after the step holds a tile generated
\* in the step into the pool entry chunk, free before the step
NewTileGenerated(index, chunk, coord, mem) ==
    /\ chunk # NULL
    /\ ~chunk_manager.pool.chunk_in_use[chunk]
    /\ chunk_manager'.pool.chunk_in_use[chunk]
    /\ chunk_manager'.pool.chunks[chunk].coord = coord
    /\ chunk_manager'.pool.chunks[chunk].generation_seed = chunk_coord_hash(coord)
    /\ mem \in {"ok", "no_temp_map"} =>
          /\ chunk_manager'.pool.chunks[chunk].is_loaded
          /\ chunk_manager'.pool.chunks[chunk].terrain =
                 terrain_manager_alloc(InitialTerrainSeed, chunk_coord_hash(coord),
                                       LOAD_ELEVATION, mem).terrain

\* the update of the step moved the window to the centre tile centre
UpdateSlides(centre) ==
    IF centre = chunk_manager.center_chunk
    THEN /\ chunk_manager' = [chunk_manager EXCEPT
                                !.player_world_x = cm'.position[1],
                                !.player_world_y = cm'.position[2]]
         /\ terrain_seed' = terrain_seed
    ELSE /\ chunk_manager'.center_chunk = centre
         /\ \A i \in 0..(MAX_ACTIVE_CHUNKS - 1) :
               chunk_manager.active_chunks[i] # NULL =>
                   OldTileSlides(chunk_manager.active_chunks[i], centre)
         /\ \A index \in 0..(MAX_ACTIVE_CHUNKS - 1) :
               ~HeldBefore(WindowCoord(centre, index)) =>
                   NewTileGenerated(index, chunk_manager'.active_chunks[index],
                                    WindowCoord(centre, index),
                                    cm'.mems[index + 1])

C22_WindowSliding == [][cm'.op = "update" => UpdateSlides(TileOf(cm'.position))]_vars

\* an update kept two tiles, generated two and unloaded two
C22_Witness ==
    /\ cm.op = "update"
    /\ Cardinality(cm.loaded) = 2
    /\ chunk_manager.chunks_loaded_this_frame = 6
    /\ chunk_manager.chunks_unloaded_this_frame = 2
    /\ \A index \in 0..(MAX_ACTIVE_CHUNKS - 1) :
          /\ chunk_manager.active_chunks[index] # NULL
          /\ ActiveChunk(index).is_loaded

---------------------------------------------------------------------------
(* C23. Tile coordinate consistency: world_to_chunk_coord floor-divides    *)
(* each world coordinate by CHUNK_SIZE, also for negative coordinates, and *)
(* the tile chunk_manager_check_collision looks up is the tile that        *)
(* contains the queried coordinate, so that the tile-local coordinate      *)
(* world - tile * CHUNK_SIZE of the query lies in 0 .. CHUNK_SIZE - 1.     *)

\* the query of the last call found a tile with a terrain and computed the
\* tile-local coordinate
LocalCoordUsed ==
    /\ cm.op = "check"
    /\ cm.chunk # NULL
    /\ ~chunk_manager.pool.chunks[cm.chunk].terrain.is_null

---------------------------------------------------------------------------
(* C24. Only the active window is queryable:                               *)
(* chunk_manager_check_collision for a world coordinate whose tile is not  *)
(* in the active window returns false, and the call does not load, evict   *)
(* or otherwise change any tile.                                           *)

\* the active window holds the tile coord
InActiveWindow(coord) ==
    \E index \in 0..(MAX_ACTIVE_CHUNKS - 1) :
        /\ chunk_manager.active_chunks[index] # NULL
        /\ ActiveChunk(index).coord = coord

\* the last call queried a coordinate whose tile is not in the window
QueriedOutside == cm.op = "check" /\ ~InActiveWindow(TileOf(cm.world))

C24_OnlyWindowQueryable ==
    /\ [](QueriedOutside => ~cm.ret)
    /\ [][cm'.op = "check" =>
             chunk_manager' = chunk_manager /\ terrain_seed' = terrain_seed]_vars

\* a coordinate beside a window of four generated tiles was queried
C24_Witness ==
    /\ QueriedOutside
    /\ ~cm.ret
    /\ \A index \in 0..(MAX_ACTIVE_CHUNKS - 1) :
          /\ chunk_manager.active_chunks[index] # NULL
          /\ ActiveChunk(index).is_loaded

---------------------------------------------------------------------------
(* C25. Failed tile generation does not corrupt the window: if the load of *)
(* a tile fails during chunk_manager_update (no free pool entry, or the    *)
(* terrain allocation fails), the window is merely short that tile: its    *)
(* grid slot yields no collision, the other slots are unaffected, no grid  *)
(* slot references a freed pool entry, and no pool entry stays in use      *)
(* without being referenced by the window.                                 *)

\* the grid slots that reference the pool entry chunk
ReferencedBy(chunk) ==
    {index \in 0..(MAX_ACTIVE_CHUNKS - 1) :
        chunk_manager.active_chunks[index] = chunk}

\* no query inside the terrain area of the tile coord reports a collision
YieldsNoCollision(coord) ==
    \A x, y \in 0..(CHUNK_TERRAIN_SIZE - 1) :
        ~chunk_manager_check_collision(chunk_manager,
                                       coord.chunk_x * CHUNK_SIZE + x,
                                       coord.chunk_y * CHUNK_SIZE + y)

\* what the last update left in a grid slot it loaded with the malloc
\* outcome mem
LoadedSlotAsSpecified(index, chunk, mem) ==
    /\ chunk # NULL
    /\ chunk_manager.pool.chunks[chunk].coord
           = WindowCoord(chunk_manager.center_chunk, index)
    /\ IF mem \in {"no_terrain", "no_height_map", "no_collision_map"}
       THEN /\ chunk_manager.pool.chunks[chunk].terrain.is_null
            /\ ~chunk_manager.pool.chunks[chunk].is_loaded
       ELSE /\ chunk_manager.pool.chunks[chunk].is_loaded
            /\ chunk_manager.pool.chunks[chunk].terrain =
                   terrain_manager_alloc(
                       InitialTerrainSeed,
                       chunk_coord_hash(WindowCoord(chunk_manager.center_chunk, index)),
                       LOAD_ELEVATION, mem).terrain

\* a manager like chunk_manager whose pool has no free entry
PoolExhausted ==
    [chunk_manager EXCEPT
       !.pool.chunk_in_use = [i \in 0..(chunk_manager.pool.pool_size - 1) |-> TRUE]]

C25_FailedLoadKeepsWindow ==
    /\ \A index \in 0..(MAX_ACTIVE_CHUNKS - 1) :
          chunk_manager.active_chunks[index] # NULL =>
              /\ chunk_manager.pool.chunk_in_use[chunk_manager.active_chunks[index]]
              /\ ActiveChunk(index).terrain.is_null =>
                    /\ ~ActiveChunk(index).is_loaded
                    /\ YieldsNoCollision(ActiveChunk(index).coord)
    /\ \A chunk \in 0..(chunk_manager.pool.pool_size - 1) :
          chunk_manager.pool.chunk_in_use[chunk] =>
              Cardinality(ReferencedBy(chunk)) = 1
    /\ cm.op = "update" =>
          \A index \in cm.loaded :
              LoadedSlotAsSpecified(index, chunk_manager.active_chunks[index],
                                    cm.mems[index + 1])
    /\ chunk_manager_load_chunk(PoolExhausted, terrain_seed,
                                chunk_manager.center_chunk, "ok", tick)
           = [manager |-> PoolExhausted, terrain_seed |-> terrain_seed,
              chunk |-> NULL]

\* the terrain allocation of grid slot 1 failed in an update that generated
\* the other three tiles
C25_Witness ==
    /\ cm.op = "update"
    /\ cm.loaded = 0..(MAX_ACTIVE_CHUNKS - 1)
    /\ cm.mems[2] = "no_terrain"
    /\ chunk_manager.active_chunks[1] # NULL
    /\ ActiveChunk(1).terrain.is_null
    /\ \A index \in {0, 2, 3} :
          /\ ActiveChunk(index).is_loaded
          /\ \E idx \in 1..Len(ActiveChunk(index).terrain.collision_map) :
                ActiveChunk(index).terrain.collision_map[idx]

---------------------------------------------------------------------------
(* C26. Deterministic generation: two calls of terrain_manager_alloc with  *)
(* the same seed and the same elevation threshold that both return a       *)
(* terrain produce identical height maps and identical collision maps,     *)
(* whatever was generated before or in between.                            *)

\* the last two calls were calls of terrain_manager_alloc that returned a
\* terrain
TwoTerrains ==
    /\ cm.op = "terrain_alloc" /\ cm.previous.op = "terrain_alloc"
    /\ ~cm.terrain.is_null /\ ~cm.previous.terrain.is_null

C26_DeterministicGeneration ==
    (TwoTerrains /\ cm.seed = cm.previous.seed
       /\ cm.elevation = cm.previous.elevation) =>
        /\ cm.terrain.height_map = cm.previous.terrain.height_map
        /\ cm.terrain.collision_map = cm.previous.terrain.collision_map

---------------------------------------------------------------------------
(* C27. Different seeds differ: two terrains generated from two different  *)
(* 32-bit seeds with the same elevation threshold have collision maps      *)
(* that differ in more than a trivial fraction of the cells (here: in at   *)
(* least one cell).                                                        *)

\* the cells in which two collision maps differ
DifferingCells(a, b) == {idx \in 1..Len(a) : a[idx] # b[idx]}

C27_DifferentSeedsDiffer ==
    (TwoTerrains /\ cm.seed # cm.previous.seed
       /\ cm.elevation = cm.previous.elevation) =>
        DifferingCells(cm.terrain.collision_map,
                       cm.previous.terrain.collision_map) # {}

---------------------------------------------------------------------------
(* C28. Despeckled mask: after terrain generation no land cell of the      *)
(* collision map is isolated (every cell with collision = true has a       *)
(* collision = true cell among its 8 neighbours), and every cell with      *)
(* collision = true has a height strictly above the elevation threshold.   *)

\* the cells of a terrain, as coordinate pairs
Cells(terrain) == (0..(terrain.width - 1)) \X (0..(terrain.height - 1))

\* the collision map entry of a cell
Land(terrain, c) == terrain.collision_map[c[2] * terrain.width + c[1] + 1]

\* two different cells touch, diagonals included
Adjacent(c, d) == c # d /\ CAbs(c[1] - d[1]) <= 1 /\ CAbs(c[2] - d[2]) <= 1

\* the land cells of a terrain without a land cell beside them
IsolatedCells(terrain) ==
    {c \in Cells(terrain) :
        /\ Land(terrain, c)
        /\ \A d \in Cells(terrain) : Adjacent(c, d) => ~Land(terrain, d)}

C28_DespeckledMask ==
    (cm.op = "terrain_alloc" /\ ~cm.terrain.is_null) =>
        /\ IsolatedCells(cm.terrain) = {}
        /\ \A c \in Cells(cm.terrain) :
              Land(cm.terrain, c) =>
                  terrain_get_height(cm.terrain, c[1], c[2])
                      > cm.terrain.elevation_threshold

---------------------------------------------------------------------------
(* C29. Tile boundaries as tested: world_to_chunk_coord maps world (0,0)   *)
(* to tile (0,0), world (32,32) to tile (1,1) and world (-1,-1) to tile    *)
(* (-1,-1).                                                                *)

\* the last call converted world and returned the tile (x, y)
Converted(world, x, y) ==
    (cm.op = "coord" /\ cm.world = world) =>
        cm.coord = [chunk_x |-> x, chunk_y |-> y]

C29_TileBoundaries ==
    /\ Converted(<<0, 0>>, 0, 0)
    /\ Converted(<<32, 32>>, 1, 1)
    /\ Converted(<<-1, -1>>, -1, -1)

---------------------------------------------------------------------------
(* C30. Fade monotonicity: for a stored point that is not rediscovered,    *)
(* sonar_chart_get_fade_state(point, t) does not decrease as t increases   *)
(* under a monotonic clock, and its value is                               *)
(* floor((t - discovery_time) / SONAR_FADE_DURATION_MS) capped at          *)
(* SONAR_FADE_GONE.                                                        *)

\* the times the clock can show
FadeTimes == {k * FadeTickStep : k \in 0..MaxFadeTicks}

\* the number of whole fade stages that fit in an age, capped
CappedStage(age) ==
    IF age \div SONAR_FADE_DURATION_MS > SONAR_FADE_GONE THEN SONAR_FADE_GONE
    ELSE age \div SONAR_FADE_DURATION_MS

\* the fade state of a stored point over the times from its discovery on
FadesOverTime(point) ==
    \A t1, t2 \in FadeTimes :
        (point.discovery_time <= t1 /\ t1 <= t2) =>
            /\ sonar_chart_get_fade_state(point, t1)
                   = CappedStage(t1 - point.discovery_time)
            /\ sonar_chart_get_fade_state(point, t1)
                   <= sonar_chart_get_fade_state(point, t2)

\* the fade state of the point stored at c does not decrease in the step
\* unless the point is rediscovered or removed
FadesInStep(c) ==
    (/\ Found(chart, c) /\ Found(chart', c)
     /\ PointAt(chart', c).discovery_time = PointAt(chart, c).discovery_time) =>
        sonar_chart_get_fade_state(PointAt(chart, c), tick)
            <= sonar_chart_get_fade_state(PointAt(chart', c), tick')

C30_FadeMonotone ==
    /\ [](\A p \in StoredSlots(chart) : FadesOverTime(Point(p)))
    /\ [][\A c \in Coords : FadesInStep(c)]_vars

\* a stored point has passed the last fade stage while another one is in
\* an intermediate stage
C30_Witness ==
    \E c, d \in Coords :
        /\ Found(chart, c) /\ Found(chart, d)
        /\ sonar_chart_get_fade_state(PointAt(chart, c), tick) = SONAR_FADE_GONE
        /\ tick - PointAt(chart, c).discovery_time > FadeHorizon
        /\ sonar_chart_get_fade_state(PointAt(chart, d), tick)
               \in 1..(SONAR_FADE_GONE - 1)

---------------------------------------------------------------------------
(* C31. Single ownership: in every state reached by inserts, subdivisions   *)
(* and age sweeps, every point slot in use is referenced by exactly one     *)
(* entry of exactly one in-use node's point list, no list of an in-use node *)
(* references a free slot, every node in use is a node of the tree, and     *)
(* point_pool.active_count equals the number of entries of all the lists.   *)

\* the nodes of the node pool that are in use
InUseNodes ==
    {n \in 0..(chart.node_pool.pool_size - 1) : chart.node_pool.node_in_use[n]}

\* the list entries (node, index) that reference a point slot
ReferencesTo(p) ==
    {e \in UNION {{<<n, i>> : i \in 1..point_count(Node(n))} : n \in InUseNodes} :
        Node(e[1]).points[e[2]] = p}

C31_SingleOwnership ==
    /\ InUseNodes = TreeNodes
    /\ \A p \in 0..(chart.point_pool.pool_size - 1) :
          chart.point_pool.point_in_use[p] => Cardinality(ReferencesTo(p)) = 1
    /\ \A n \in InUseNodes : \A i \in 1..point_count(Node(n)) :
          /\ Node(n).points[i] \in 0..(chart.point_pool.pool_size - 1)
          /\ chart.point_pool.point_in_use[Node(n).points[i]]
    /\ chart.point_pool.active_count = StoredCount(chart)

\* after an age sweep that released points, the tree is subdivided to the
\* depth cap, keeps a point on an internal node and points on a leaf, and
\* the last call stored a new point
C31_Witness ==
    /\ sweeps > 0
    /\ last.op = "add" /\ last.ret /\ ~last.existed
    /\ RetainingNodes # {}
    /\ \E n \in TreeNodes :
          /\ Node(n).depth = SONAR_QUADTREE_MAX_DEPTH
          /\ point_count(Node(n)) > 0
    /\ chart.point_pool.active_count >= SONAR_QUADTREE_MAX_POINTS + 1

---------------------------------------------------------------------------
(* C32. Failed subdivision leaves a valid leaf: when sonar_quad_subdivide   *)
(* is called on a leaf below the depth cap and the node pool has fewer than *)
(* four free nodes, the node is a leaf afterwards, its point list is the    *)
(* one it had, its four child references are NULL, the same nodes are in    *)
(* use as before (every child obtained during the attempt is free again),   *)
(* and the point pool is unchanged.  So in every state every leaf of the    *)
(* tree has four NULL child references and every node in use is a node of   *)
(* the tree.                                                                *)

\* the leaves sonar_quad_subdivide would split
SplittableLeaves ==
    {n \in TreeNodes :
        Node(n).is_leaf /\ Node(n).depth < SONAR_QUADTREE_MAX_DEPTH}

\* node of chart ch1 is the leaf it is in chart, and the pools hold what
\* they hold in chart
StillValidLeaf(ch1, node) ==
    /\ ch1.node_pool.nodes[node].is_leaf
    /\ ch1.node_pool.nodes[node].points = Node(node).points
    /\ ch1.node_pool.nodes[node].bounds = Node(node).bounds
    /\ ch1.node_pool.nodes[node].depth = Node(node).depth
    /\ \A j \in 1..4 : ch1.node_pool.nodes[node].children[j] = NULL
    /\ ch1.node_pool.node_in_use = chart.node_pool.node_in_use
    /\ InUseNodeCount(ch1) = InUseNodeCount(chart)
    /\ ch1.point_pool = chart.point_pool
    /\ ch1.root = chart.root

C32_FailedSubdivision ==
    /\ \A n \in TreeNodes :
          Node(n).is_leaf => \A j \in 1..4 : Node(n).children[j] = NULL
    /\ InUseNodes = TreeNodes
    /\ \A n \in SplittableLeaves :
          FreeNodeCount(chart) < 4
              => StillValidLeaf(sonar_quad_subdivide(chart, n), n)

\* an insert has just been rejected after the subdivision of a full leaf
\* obtained three of its four children: the pool's scan position has moved
\* past the three free nodes and wrapped, and the three nodes are free
C32_Witness ==
    /\ last.op = "add" /\ ~last.ret /\ ~last.existed
    /\ FreeNodeCount(chart) = 3
    /\ chart.node_pool.next_free = 0
    /\ \E n \in SplittableLeaves :
          point_count(Node(n)) = SONAR_QUADTREE_MAX_POINTS

---------------------------------------------------------------------------
(* C33. Rejected insert leaves stored data intact: a call of                *)
(* sonar_chart_add_point that returns false leaves the slots held by the    *)
(* tree, the point stored in each of them (coordinates, terrain flag,       *)
(* discovery time, fade state), point_in_use and active_count as they were  *)
(* before the call; so the slot it allocated for the new point is free      *)
(* again, and no list of the tree references a free slot.                   *)

\* the slots of the point pool
PointSlots == 0..(chart.point_pool.pool_size - 1)

\* chart ch1 stores what chart stores
SameStoredPoints(ch1) ==
    /\ StoredSlots(ch1) = StoredSlots(chart)
    /\ StoredCount(ch1) = StoredCount(chart)
    /\ \A p \in StoredSlots(chart) : ch1.point_pool.points[p] = Point(p)
    /\ ch1.point_pool.point_in_use = chart.point_pool.point_in_use
    /\ ch1.point_pool.active_count = chart.point_pool.active_count
    /\ \A p \in StoredSlots(ch1) : ch1.point_pool.point_in_use[p]
    /\ \A p \in PointSlots :
          ~ch1.point_pool.point_in_use[p] => p \notin StoredSlots(ch1)

RejectedInsertKeeps ==
    (last'.op = "add" /\ ~last'.ret) => SameStoredPoints(chart')

C33_RejectedInsert == [][RejectedInsertKeeps]_vars

\* the tree has just rejected an insert although the point pool has a free
\* slot: the points it holds were discovered at different times, one of
\* them is terrain, and the pool's scan position has moved past the slot
\* that was allocated and released
C33_Witness ==
    /\ last.op = "add" /\ ~last.ret
    /\ chart.point_pool.active_count < chart.point_pool.pool_size
    /\ \E p \in PointSlots :
          /\ ~chart.point_pool.point_in_use[p]
          /\ chart.point_pool.next_free = (p + 1) % chart.point_pool.pool_size
    /\ \E p, q \in StoredSlots(chart) :
          Point(p).discovery_time # Point(q).discovery_time
    /\ \E p \in StoredSlots(chart) : Point(p).is_terrain

---------------------------------------------------------------------------
(* C34. Line stepper reaches its end point: after raycaster_bresham_init    *)
(* for a line from (x0, y0) to (x1, y1), at every moment of the stepping    *)
(* the remaining-distance counters bresham_dx and bresham_dy are not        *)
(* negative, the current position lies in the bounding box of the two end   *)
(* points, at most |x1 - x0| + |y1 - y0| calls of raycaster_bresham_step    *)
(* have returned true, and a call that returns false reports the end point  *)
(* (x1, y1).                                                                *)

\* |x1 - x0| + |y1 - y0| of the line being stepped
ManhattanLength ==
    CAbs(ray.line[3] - ray.line[1]) + CAbs(ray.line[4] - ray.line[2])

\* a position lies in the bounding box of the line's end points
InLineBox(x, y) ==
    /\ x >= SetMin({ray.line[1], ray.line[3]})
    /\ x <= Max(ray.line[1], ray.line[3])
    /\ y >= SetMin({ray.line[2], ray.line[4]})
    /\ y <= Max(ray.line[2], ray.line[4])

C34_LineReachesEnd ==
    ray.op \in {"init", "step"} =>
        /\ raycaster.bresham_dx >= 0
        /\ raycaster.bresham_dy >= 0
        /\ InLineBox(raycaster.bresham_x, raycaster.bresham_y)
        /\ Len(ray.yielded) <= ManhattanLength
        /\ (ray.op = "step" /\ ~ray.ret) => ray.out = <<ray.line[3], ray.line[4]>>

---------------------------------------------------------------------------
(* C35. No unchecked cell on a miss: when raycaster_cast_ray is given a     *)
(* collision function and returns false, the collision function answers     *)
(* false at every position the line stepper reported during the cast, from  *)
(* the origin up to and including the terminal point (hit_x, hit_y) of the  *)
(* result.                                                                  *)

RECURSIVE SteppedPositions(_, _)
\* the positions the first k calls of raycaster_bresham_step report
SteppedPositions(rc, k) ==
    IF k = 0 THEN <<>>
    ELSE LET s == raycaster_bresham_step(rc)
         IN  <<(<<s.out_x, s.out_y>>)>> \o SteppedPositions(s.rc, k - 1)

\* the line raycaster_cast_ray initialised for the last cast
CastLine ==
    raycaster_bresham_init(raycaster, ray.start[1], ray.start[2],
        ClampInt16(ray.start[1]
            + CDiv(ray.direction.dx * ray.max_distance, FIXED_POINT_SCALE)),
        ClampInt16(ray.start[2]
            + CDiv(ray.direction.dy * ray.max_distance, FIXED_POINT_SCALE)))

\* the positions the stepper reported during the last cast
CastPositions == SteppedPositions(CastLine, ray.calls)

C35_MissMeansClear ==
    (ray.op = "cast_ray" /\ ray.world.has_func /\ ~ray.ret) =>
        /\ CastPositions[Len(CastPositions)] = <<ray.result.hit_x, ray.result.hit_y>>
        /\ \A k \in 1..Len(CastPositions) :
              ~Collides(ray.world, CastPositions[k][1], CastPositions[k][2])

---------------------------------------------------------------------------
(* C36. First colliding point within range: every call of                   *)
(* raycaster_cast_ray returns after at most max_distance evaluations of the *)
(* collision function (one per counted step) with result.distance at most   *)
(* max_distance; when it returns true the collision function answers true   *)
(* at (hit_x, hit_y), that point is the last one the line stepper reported, *)
(* and the function answered false at every point reported before it.       *)

\* the cast evaluated the collision function once per counted step, and
\* counted at most max_distance steps
EvaluationsBounded ==
    ray'.op = "cast_ray" =>
        /\ raycaster'.rays_cast_this_frame - raycaster.rays_cast_this_frame
              = ray'.result.distance
        /\ ray'.result.distance <= ray'.max_distance
        /\ ray'.calls <= ray'.max_distance + 1
        /\ ray'.result.ray_complete

\* a reported hit is the first colliding point of the stepped line
FirstCollidingPoint ==
    (ray.op = "cast_ray" /\ ray.ret) =>
        /\ ray.result.hit_terrain
        /\ Collides(ray.world, ray.result.hit_x, ray.result.hit_y)
        /\ ray.result.distance = ray.calls
        /\ CastPositions[ray.calls] = <<ray.result.hit_x, ray.result.hit_y>>
        /\ \A k \in 1..(ray.calls - 1) :
              ~Collides(ray.world, CastPositions[k][1], CastPositions[k][2])

C36_FirstHitInRange ==
    /\ [](FirstCollidingPoint /\ (ray.op = "cast_ray" => (ray.ret <=> ray.result.hit_terrain)))
    /\ [][EvaluationsBounded]_vars

\* a hit away from the origin and short of the maximum distance, after a
\* clear point
C36_Witness ==
    /\ ray.op = "cast_ray" /\ ray.ret
    /\ ray.result.distance >= 2
    /\ ray.result.distance < ray.max_distance
    /\ <<ray.result.hit_x, ray.result.hit_y>> # ray.start

---------------------------------------------------------------------------
(* C37. Chunk pool accounting: in every state the pool entries in use are   *)
(* exactly the entries the non-empty grid slots of the active window        *)
(* reference, each referenced by one slot, so their number equals the       *)
(* number of non-empty slots and is at most MAX_ACTIVE_CHUNKS; the pool has *)
(* CHUNK_CACHE_SIZE + MAX_ACTIVE_CHUNKS + 4 = 8 entries; and during every   *)
(* chunk_manager_update the entries in use before the call and the tiles    *)
(* the call loads fit into the pool together, so chunk_pool_alloc does not  *)
(* fail and every grid slot the call loads holds an entry afterwards.       *)

\* the pool entries in use
ChunksInUse(manager) ==
    {chunk \in 0..(manager.pool.pool_size - 1) : manager.pool.chunk_in_use[chunk]}

\* the grid slots of the active window that hold an entry
NonEmptySlots(manager) ==
    {index \in 0..(MAX_ACTIVE_CHUNKS - 1) : manager.active_chunks[index] # NULL}

PoolAccounted ==
    /\ ChunksInUse(chunk_manager)
          = {chunk_manager.active_chunks[index] : index \in NonEmptySlots(chunk_manager)}
    /\ Cardinality(ChunksInUse(chunk_manager))
          = Cardinality(NonEmptySlots(chunk_manager))
    /\ Cardinality(ChunksInUse(chunk_manager)) <= MAX_ACTIVE_CHUNKS
    /\ chunk_manager.pool.pool_size = 8

\* an update finds room in the pool for every tile it loads
AllocSucceeds ==
    cm'.op = "update" =>
        /\ Cardinality(ChunksInUse(chunk_manager)) + Cardinality(cm'.loaded)
              <= chunk_manager.pool.pool_size
        /\ \A index \in cm'.loaded : chunk_manager'.active_chunks[index] # NULL

C37_PoolAccounting == []PoolAccounted /\ [][AllocSucceeds]_vars

\* an update has just loaded four tiles while the four tiles of the window
\* before it were still in use, and released those four afterwards
C37_Witness ==
    /\ cm.op = "update" /\ cm.updates >= 2
    /\ Cardinality(cm.loaded) = MAX_ACTIVE_CHUNKS
    /\ chunk_manager.chunks_unloaded_this_frame >= MAX_ACTIVE_CHUNKS
    /\ Cardinality(ChunksInUse(chunk_manager)) = MAX_ACTIVE_CHUNKS

---------------------------------------------------------------------------
(* C38. Node list bound: in every state reached by inserts, subdivisions    *)
(* and age sweeps, the point_count of every node of the node pool, the      *)
(* nodes of the tree and the released ones alike, is at most                *)
(* SONAR_QUADTREE_MAX_POINTS, the size of the node's points array.          *)
C38_NodeListBound ==
    \A n \in 0..(chart.node_pool.pool_size - 1) :
        point_count(Node(n)) <= SONAR_QUADTREE_MAX_POINTS

\* after an age sweep the tree holds a full leaf that cannot subdivide (at
\* the depth cap, or below it with no node left) under an internal node
\* that keeps a point of its own, and the last call stored a new point
C38_Witness ==
    /\ sweeps > 0
    /\ last.op = "add" /\ last.ret /\ ~last.existed
    /\ \E n \in TreeNodes :
          /\ Node(n).is_leaf
          /\ point_count(Node(n)) = SONAR_QUADTREE_MAX_POINTS
          /\ \/ Node(n).depth = SONAR_QUADTREE_MAX_DEPTH
             \/ FreeNodeCount(chart) < 4
    /\ \E n \in RetainingNodes : point_count(Node(n)) >= 1

---------------------------------------------------------------------------
(* C39. Query buffer bound: for every tree, query window and buffer size    *)
(* max_points, sonar_chart_query_area writes at most max_points entries to  *)
(* the buffer and returns their number; the entries are distinct stored     *)
(* points inside the window, and their number is the smaller of max_points  *)
(* and the number of stored points inside the window.                       *)

\* the stored points inside a window
Matching(w) == {p \in StoredSlots(chart) : InWindow(w, p)}

\* out is what a query of window w wrote to a buffer of max_points entries
WithinBuffer(w, max_points, out) ==
    /\ Len(out) <= max_points
    /\ \A i, k \in 1..Len(out) : out[i] = out[k] => i = k
    /\ \A i \in 1..Len(out) : out[i] \in Matching(w)
    /\ Len(out) = SetMin({max_points, Cardinality(Matching(w))})

C39_QueryBufferBound ==
    \A w \in Windows : \A max_points \in 0..MaxBuffer :
        WithinBuffer(w, max_points,
                     sonar_chart_query_area(chart, w, max_points))

\* more stored points lie inside a window than the largest buffer holds,
\* some of them on an internal node and some on a leaf
C39_Witness ==
    \E w \in Windows :
        /\ Cardinality(Matching(w)) > MaxBuffer
        /\ \E p \in SlotsOf(chart, RetainingNodes) : InWindow(w, p)
        /\ \E p \in StoredSlots(chart) \ SlotsOf(chart, RetainingNodes) :
              InWindow(w, p)

---------------------------------------------------------------------------
(* C40. Stable world across eviction: the generation seed of every tile of  *)
(* the active window is chunk_coord_hash of the tile's coordinate, and a    *)
(* tile of the window whose terrain was generated has the collision map     *)
(* every tile of the same coordinate had that the window held before, so a  *)
(* tile that was evicted and is loaded again has the collision map it had   *)
(* before its eviction.                                                     *)

\* the tile of grid slot index was seen before with another collision map
MaskChanged(index) ==
    \E m \in cm.masks :
        /\ m[1] = ActiveChunk(index).coord
        /\ m[2] # ActiveChunk(index).terrain.collision_map

C40_StableWorld ==
    \A index \in NonEmptySlots(chunk_manager) :
        /\ ActiveChunk(index).generation_seed
              = chunk_coord_hash(ActiveChunk(index).coord)
        /\ ~ActiveChunk(index).terrain.is_null => ~MaskChanged(index)

====
